---- MODULE Spec2Model ----
(***************************************************************************)
(* A model of the Borderlands 2 save-file editor (borderlands/savefile.py,  *)
(* borderlands/bl2.py): Config.finish, App.run and the mutation engine      *)
(* App.modify_save acting on the decoded player record, the challenge-log   *)
(* codec (unwrap_challenges / wrap_challenges) at byte level and the outer  *)
(* container (wrap_player_data / unwrap_player_data).                       *)
(*                                                                         *)
(* Numbers.  TLC integers are 32 bits wide, the save's are not:             *)
(*   - a Python int that has to pass through struct.pack('I') is kept as a  *)
(*     pair <<hi, lo>> standing for hi * 65536 + lo, lo in 0..65535;        *)
(*   - an unsigned 64-bit value is kept as four 16-bit limbs, most          *)
(*     significant first;                                                   *)
(*   - bytes strings are sequences of 0..255.                               *)
(* An optional value (Python None or a value) is <<>> or <<v>>.             *)
(***************************************************************************)
EXTENDS Integers, Sequences, FiniteSets, TLC

VARIABLES
    config0,    \* the Config namespace as parse_args filled it
    config,     \* the Config namespace of the run
    player0,    \* the decoded player record as loaded from the input save
    player,     \* the decoded player record held by the program
    pc,         \* "parsed" | "finished" | "usage" | "modified" | "done"
    status,     \* how the last call ended: "ok" or the exception raised
    called,     \* number of modify_save calls made so far
    data,       \* container codec: the bytes handed to the codec
    result      \* container codec: what the codec returned

vars == <<config0, config, player0, player, pc, status, called, data, result>>

(***************************************************************************)
(* Bounds of the model.                                                     *)
(***************************************************************************)
MaxItems == 2          \* entries in the items / weapons containers
MaxChallenges == 2     \* entries in the challenge log
MaxCalls == 2          \* modify_save calls on one record
MaxPayload == 2        \* bytes of player payload handed to the container
MaxSizeArg == 41       \* largest --backpack / --bank argument tried

(***************************************************************************)
(* Optional values and small helpers.                                       *)
(***************************************************************************)
None == <<>>
Some(v) == <<v>>
IsNone(o) == Len(o) = 0
Val(o) == o[1]

Min(a, b) == IF a < b THEN a ELSE b
Max(a, b) == IF a > b THEN a ELSE b

\* Python slices data[:n] and data[n:], which never fail.
Take(s, n) == SubSeq(s, 1, Min(n, Len(s)))
Drop(s, n) == SubSeq(s, Min(n, Len(s)) + 1, Len(s))

\* Python list slice s[a:b] with 0-based a, b >= 0.
Slice(s, a, b) == SubSeq(s, Min(a, Len(s)) + 1, Min(b, Len(s)))

\* int(math.ceil(a / float(b))) for b > 0.
ceil_div(a, b) == -((-a) \div b)

(***************************************************************************)
(* Wide numbers <<hi, lo>> = hi * 65536 + lo.                               *)
(***************************************************************************)
Wide(n) == <<n \div 65536, n % 65536>>
WAdd(a, b) == <<a[1] + b[1] + ((a[2] + b[2]) \div 65536), (a[2] + b[2]) % 65536>>
WLess(a, b) == a[1] < b[1] \/ (a[1] = b[1] /\ a[2] < b[2])
WGeq(a, b) == ~WLess(a, b)
FitsU32(a) == a[1] >= 0 /\ a[1] <= 65535
FitsU16(n) == n >= 0 /\ n <= 65535

(***************************************************************************)
(* Program constants (class App, class AppBL2).                             *)
(***************************************************************************)
min_backpack_size == 12
max_backpack_size == 39
min_bank_size == 6
max_bank_size == 24
max_level == 80

required_xp ==
    << 0, 358, 1241, 2850, 5376, 8997, 13886, 20208,
       28126, 37798, 49377, 63016, 78861, 97061, 117757, 141092,
       167206, 196238, 228322, 263595, 302190, 344238, 389873, 439222,
       492414, 549578, 610840, 676325, 746158, 820463, 899363, 982980,
       1071435, 1164850, 1263343, 1367034, 1476041, 1590483, 1710476, 1836137,
       1967582, 2104926, 2248285, 2397772, 2553501, 2715586, 2884139, 3059273,
       3241098, 3429728, 3625271, 3827840, 4037543, 4254491, 4478792, 4710556,
       4949890, 5196902, 5451701, 5714393, 5985086, 6263885, 6550897, 6846227,
       7149982, 7462266, 7783184, 8112840, 8451340, 8798786, 9155282, 9520931,
       9895837, 10280103, 10673830, 11077120, 11490077, 11912801, 12345393, 12787955 >>

\* required_xp[i] with Python's 0-based index i.
ReqXp(i) == required_xp[i + 1]

black_market_keys ==
    << "backpack", "bank", "grenade", "launcher", "pistol",
       "rifle", "shotgun", "smg", "sniper" >>


\* black_market_ammo of AppBL2: the keys that are ammo pools.
black_market_ammo_keys ==
    { "grenade", "launcher", "pistol", "rifle", "shotgun", "smg", "sniper" }

(***************************************************************************)
(* Config: the class attributes, i.e. the namespace when no option is given *)
(* (argparse leaves an attribute the class already has, and sets            *)
(* forceitemlevels and fix_challenge_overflow, which it does not have, to   *)
(* False).  backpack and bank hold the argument text until finish():        *)
(* [kind |-> "max"], [kind |-> "int", n |-> ...] or [kind |-> "junk"].      *)
(***************************************************************************)
DefaultConfig ==
    [ bigendian |-> FALSE, copy_nvhm_missions |-> FALSE,
      name |-> None, save_game_id |-> None, level |-> None,
      money |-> None, eridium |-> None, moonstone |-> None,
      seraph |-> None, torgue |-> None,
      itemlevels |-> None, forceitemlevels |-> FALSE,
      backpack |-> None, bank |-> None, gunslots |-> None,
      maxammo |-> None, oplevel |-> None,
      unlock |-> {}, challenges |-> {},
      fix_challenge_overflow |-> FALSE,
      endian |-> "<", changes |-> FALSE ]

MaxArg == [kind |-> "max", n |-> 0]
IntArg(n) == [kind |-> "int", n |-> n]
JunkArg == [kind |-> "junk", n |-> 0]

\* Config.finish, lines 102-131: the "changes" boolean.
finish_changes(c) ==
    \/ ~IsNone(c.backpack) \/ ~IsNone(c.bank) \/ ~IsNone(c.eridium)
    \/ ~IsNone(c.gunslots) \/ ~IsNone(c.itemlevels) \/ ~IsNone(c.level)
    \/ ~IsNone(c.maxammo) \/ ~IsNone(c.money) \/ ~IsNone(c.moonstone)
    \/ ~IsNone(c.name) \/ ~IsNone(c.oplevel) \/ ~IsNone(c.save_game_id)
    \/ ~IsNone(c.seraph) \/ ~IsNone(c.seraph) \/ ~IsNone(c.torgue)
    \/ c.copy_nvhm_missions
    \/ c.unlock # {}
    \/ c.challenges # {}

\* Config.finish, lines 148-174: 'max', int() and the clamp of one size option.
finish_size_mutant(arg, lo, hi) ==
    IF arg.kind = "max" THEN hi ELSE arg.n

finish_size(arg, lo, hi) ==
    IF arg.kind = "max" THEN hi
    ELSE IF arg.n > hi THEN hi
    ELSE IF arg.n < lo THEN lo
    ELSE arg.n

\* Config.finish: TRUE when it ends in parser.error (the process exits).
finish_fails(c) ==
    \/ ~IsNone(c.level) /\ (Val(c.level) < 1 \/ Val(c.level) > max_level)
    \/ ~IsNone(c.backpack) /\ Val(c.backpack).kind = "junk"
    \/ ~IsNone(c.bank) /\ Val(c.bank).kind = "junk"

\* Config.finish: the namespace it leaves behind when it returns.
finish(c) ==
    LET c1 == [c EXCEPT !.endian = IF c.bigendian THEN ">" ELSE "<"]
        c2 == IF "ammo" \in c1.unlock THEN [c1 EXCEPT !.maxammo = Some(TRUE)] ELSE c1
        c3 == [c2 EXCEPT !.changes = c2.changes \/ finish_changes(c2)]
        c4 == IF IsNone(c3.backpack) THEN c3
              ELSE [c3 EXCEPT !.backpack =
                       Some(finish_size(Val(c3.backpack), min_backpack_size, max_backpack_size))]
        c5 == IF IsNone(c4.bank) THEN c4
              ELSE [c4 EXCEPT !.bank =
                       Some(finish_size(Val(c4.bank), min_bank_size, max_bank_size))]
    IN c5


(***************************************************************************)
(* Unsigned 64-bit values, four 16-bit limbs, most significant first.       *)
(***************************************************************************)
U64Zero == <<0, 0, 0, 0>>

\* struct.unpack('>Q', struct.pack('>q', -v))[0] for 0 <= v < 2^31:
\* the two's complement of v, i.e. the bitwise complement of v - 1.
neg_u64(v) ==
    IF v = 0 THEN U64Zero
    ELSE <<65535, 65535, 65535 - ((v - 1) \div 65536), 65535 - ((v - 1) % 65536)>>

\* (-x) & 0xFF for an unsigned 64-bit x.
neg_low_byte(x) == (256 - (x[4] % 256)) % 256

(***************************************************************************)
(* Items.  An entry of the items (tag 53) or weapons (tag 54) container is  *)
(* kept decoded: the item's is_weapon, values and key as unwrap_item gives  *)
(* them, and the entry's tags 2, 3 and 4.  A value that is None in Python   *)
(* is NoField.                                                              *)
(***************************************************************************)
NoField == -1
ItemFields == 17

\* The test of modify_save line 781 (and export_items line 1119).
is_synthetic(values) ==
    /\ values[1] = 255
    /\ \A i \in 2..Len(values) : values[i] = 0

\* item_sizes, lines 209-212, indexed by is_weapon + 1.
item_sizes ==
    << <<8, 17, 20, 11, 7, 7, 16, 16, 16, 16, 16, 16, 16, 16, 16, 16, 16>>,
       <<8, 13, 20, 11, 7, 7, 17, 17, 17, 17, 17, 17, 17, 17, 17, 17, 17>> >>

\* The powers of two 2^0 .. 2^30, and 2^n.
RECURSIVE PowersUpTo(_)
PowersUpTo(n) ==
    IF n = 0 THEN <<1>> ELSE LET p == PowersUpTo(n - 1) IN Append(p, 2 * p[n])

powers_of_two == PowersUpTo(30)
Pow2(n) == powers_of_two[n + 1]

\* Bit n (0 = least significant) of a natural number below 2^31.
BitOf(v, n) == IF n > 30 THEN 0 ELSE (v \div Pow2(n)) % 2

\* pack_item_values, lines 365-381: the fields packed up to the first None.
PackedFields(values) ==
    IF \E i \in 1..Len(values) : values[i] = NoField
    THEN (CHOOSE i \in 1..Len(values) :
             values[i] = NoField /\ \A j \in 1..(i - 1) : values[j] # NoField) - 1
    ELSE Len(values)

\* The bit offsets of the fields in the packed item (i at line 370): entry f
\* is where field f starts, entry Len(sizes) + 1 where the last one ends.
RECURSIVE StartsUpTo(_, _)
StartsUpTo(sizes, n) ==
    IF n = 0 THEN <<0>>
    ELSE LET p == StartsUpTo(sizes, n - 1) IN Append(p, p[n] + sizes[n])

item_starts == <<StartsUpTo(item_sizes[1], 17), StartsUpTo(item_sizes[2], 17)>>

\* Bit p of the bytearray after the loop and the 0xFF << (i & 7) padding:
\* every field is or-ed in at its offset, least significant bit first.
PackedBit(starts, values, k, p) ==
    IF p >= starts[k + 1] THEN 1
    ELSE IF \E f \in 1..k : p >= starts[f] /\ BitOf(values[f], p - starts[f]) = 1
    THEN 1 ELSE 0

RECURSIVE BitsValue(_, _, _)
BitsValue(bit(_), from, n) ==
    IF n = 0 THEN 0 ELSE bit(from) + (2 * BitsValue(bit, from + 1, n - 1))

pack_item_values(is_weapon, values) ==
    LET starts == item_starts[is_weapon + 1]
        v == <<>> \o values
        k == Min(PackedFields(v), ItemFields)
        i == starts[k + 1]
        bit(p) == PackedBit(starts, v, k, p)
    IN [b \in 1..((i + 7) \div 8) |-> BitsValue(bit, 8 * (b - 1), 8)]

\* unpack_item_values, lines 383-398, from field f on, i being the bit
\* offset into b' ' + data: a field that does not fit is None and the
\* offset stays, so a later, narrower field is still read.
RECURSIVE unpack_fields(_, _, _, _)
unpack_fields(sizes, d, f, i) ==
    IF f > Len(sizes) THEN <<>>
    ELSE LET j == i + sizes[f]
             bit(p) == BitOf(d[(p \div 8) + 1], p % 8)
         IN IF j > Len(d) * 8
            THEN <<NoField>> \o unpack_fields(sizes, d, f + 1, i)
            ELSE <<BitsValue(bit, i, sizes[f])>> \o unpack_fields(sizes, d, f + 1, j)

unpack_item_values(is_weapon, d) ==
    unpack_fields(item_sizes[is_weapon + 1], <<32>> \o d, 1, 8)

\* unwrap_item(wrap_item(is_weapon, values, key))[1]: what lines 743-746
\* leave in the entry.
repack_values(is_weapon, values) ==
    unpack_item_values(is_weapon, pack_item_values(is_weapon, values))

\* The "virtual" item of lines 794-807 (base_data decodes to set 255, all
\* other fields 0, key 0).
new_op_entry(new_field_data) ==
    [ is_weapon |-> 0,
      values |-> [i \in 1..ItemFields |-> IF i = 1 THEN 255 ELSE 0],
      key |-> 0,
      f2 |-> Some(new_field_data), f3 |-> Some(0), f4 |-> Some(0) ]

(***************************************************************************)
(* The field-record codec (datautil/protobuf.py).  A value is an int, a     *)
(* bytes object, a list of ints, a float (kept as its 32 bits), a list of   *)
(* values, or a dict; all are records of one shape.  A dict is the sequence *)
(* of its (key, value) items in insertion order.                            *)
(***************************************************************************)
IntV(n) == [kind |-> "int", n |-> n, b |-> <<>>, items |-> <<>>]
BytesV(b) == [kind |-> "bytes", n |-> 0, b |-> b, items |-> <<>>]
ListV(b) == [kind |-> "list", n |-> 0, b |-> b, items |-> <<>>]
FloatV(bits) == [kind |-> "float", n |-> bits, b |-> <<>>, items |-> <<>>]
StrV(b) == [kind |-> "str", n |-> 0, b |-> b, items |-> <<>>]
SeqV(items) == [kind |-> "values", n |-> 0, b |-> <<>>, items |-> items]
DictV(items) == [kind |-> "dict", n |-> 0, b |-> <<>>, items |-> items]

\* An outcome of a codec function: the value, or the exception raised.
Ok(v) == [status |-> "ok", v |-> v]
Err(e) == [status |-> e, v |-> <<>>]

\* dict.get(k): the index of key k among the items, 0 when it is absent.
KeyIndex(d, k) ==
    IF \E i \in 1..Len(d) : d[i].key = k
    THEN CHOOSE i \in 1..Len(d) : d[i].key = k
    ELSE 0

\* d[k] = v on a dict: the value is replaced in place, a new key goes last.
DictSet(d, k, v) ==
    IF KeyIndex(d, k) = 0 THEN Append(d, [key |-> k, val |-> v])
    ELSE [d EXCEPT ![KeyIndex(d, k)].val = v]

\* write_varint, lines 71-75, for i >= 0.
RECURSIVE write_varint(_)
write_varint(i) ==
    IF i > 127 THEN <<128 + (i % 128)>> \o write_varint(i \div 128) ELSE <<i>>

\* read_varint, lines 59-68, from (1-based) position pos of d: the value and
\* the position after it; ord(b'') raises TypeError at the end of the data.
RECURSIVE read_varint(_, _)
read_varint(d, pos) ==
    IF pos > Len(d) THEN [ok |-> FALSE, value |-> 0, pos |-> pos]
    ELSE IF d[pos] < 128 THEN [ok |-> TRUE, value |-> d[pos], pos |-> pos + 1]
    ELSE LET r == read_varint(d, pos + 1) IN
         [ok |-> r.ok, value |-> (d[pos] % 128) + (128 * r.value), pos |-> r.pos]

\* struct.pack("<I", n) / struct.pack("<Q", n): n little-endian in w bytes.
pack_le(n, w) == [i \in 1..w |-> IF i > 4 THEN 0 ELSE (n \div Pow2(8 * (i - 1))) % 256]

\* struct.unpack("<I", b)[0] / struct.unpack("<Q", b)[0].
RECURSIVE unpack_le(_)
unpack_le(b) == IF b = <<>> THEN 0 ELSE b[1] + (256 * unpack_le(Tail(b)))


\* read_protobuf_value, lines 78-90, at position pos of d.
read_protobuf_value(d, pos, wire_type) ==
    CASE wire_type = 0 ->
           LET r == read_varint(d, pos) IN
           IF r.ok THEN [status |-> "ok", value |-> IntV(r.value), pos |-> r.pos]
           ELSE [status |-> "TypeError", value |-> IntV(0), pos |-> pos]
      [] wire_type \in {1, 5} ->
           LET w == IF wire_type = 1 THEN 8 ELSE 4 IN
           IF pos + w - 1 > Len(d)
           THEN [status |-> "struct.error", value |-> IntV(0), pos |-> pos]
           ELSE [status |-> "ok", value |-> IntV(unpack_le(SubSeq(d, pos, pos + w - 1))),
                 pos |-> pos + w]
      [] wire_type = 2 ->
           LET r == read_varint(d, pos) IN
           IF ~r.ok THEN [status |-> "TypeError", value |-> IntV(0), pos |-> pos]
           ELSE LET last == Min(Len(d), r.pos + r.value - 1) IN
                [status |-> "ok", value |-> BytesV(SubSeq(d, r.pos, last)), pos |-> last + 1]
      [] OTHER -> [status |-> "BorderlandsError", value |-> IntV(0), pos |-> pos]

\* read_repeated_protobuf_value, lines 93-98: the Python list of the values.
RECURSIVE read_values(_, _, _)
read_values(d, pos, wire_type) ==
    IF pos > Len(d) THEN Ok(<<>>)
    ELSE LET r == read_protobuf_value(d, pos, wire_type) IN
         IF r.status # "ok" THEN Err(r.status)
         ELSE LET rest == read_values(d, r.pos, wire_type) IN
              IF rest.status # "ok" THEN rest ELSE Ok(<<r.value>> \o rest.v)

read_repeated_protobuf_value(d, wire_type) ==
    LET r == read_values(d, 1, wire_type) IN
    IF r.status # "ok" THEN r
    ELSE IF wire_type = 2 THEN Ok(SeqV(r.v))
    ELSE Ok(ListV([i \in 1..Len(r.v) |-> r.v[i].n]))

\* write_protobuf_value, lines 101-116.
write_protobuf_value(wire_type, value) ==
    CASE wire_type = 0 ->
           IF value.kind = "int" THEN Ok(write_varint(value.n)) ELSE Err("TypeError")
      [] wire_type = 1 ->
           IF value.kind = "int" THEN Ok(pack_le(value.n, 8)) ELSE Err("struct.error")
      [] wire_type = 2 ->
           IF value.kind \in {"bytes", "str", "list"}
           THEN Ok(write_varint(Len(value.b)) \o value.b) ELSE Err("TypeError")
      [] wire_type = 5 ->
           IF value.kind = "int" THEN Ok(pack_le(value.n, 4)) ELSE Err("struct.error")
      [] OTHER -> Err("BorderlandsError")

\* The elements of a Python list value.
Elements(value) ==
    IF value.kind = "list" THEN [i \in 1..Len(value.b) |-> IntV(value.b[i])]
    ELSE value.items

\* Two outcomes in sequence: the first exception, or the bytes of both.
Joined(r, rest) ==
    IF r.status # "ok" THEN r
    ELSE IF rest.status # "ok" THEN rest ELSE Ok(r.v \o rest.v)

\* The same for a list that gets r as its first element.
Cons(r, rest) ==
    IF r.status # "ok" THEN r
    ELSE IF rest.status # "ok" THEN rest ELSE Ok(<<r.v>> \o rest.v)

\* write_repeated_protobuf_value, lines 119-123, and the loop of lines
\* 187-189.
RECURSIVE write_values(_, _)
write_values(values, wire_type) ==
    IF Len(values) = 0 THEN Ok(<<>>)
    ELSE Joined(write_protobuf_value(wire_type, values[1]),
                write_values(Tail(values), wire_type))

\* read_protobuf, lines 126-136: tag -> entries, in the order the tags first
\* appear.
RECURSIVE read_fields(_, _, _)
read_fields(d, pos, fields) ==
    IF pos > Len(d) THEN Ok(fields)
    ELSE LET k == read_varint(d, pos) IN
         IF ~k.ok THEN Err("TypeError")
         ELSE LET field_number == k.value \div 8
                  wire_type == k.value % 8
                  r == read_protobuf_value(d, k.pos, wire_type)
                  entry == [wire_type |-> wire_type, value |-> r.value]
              IN IF r.status # "ok" THEN Err(r.status)
                 ELSE read_fields(d, r.pos,
                        IF KeyIndex(fields, field_number) = 0
                        THEN Append(fields, [key |-> field_number, val |-> <<entry>>])
                        ELSE [fields EXCEPT ![KeyIndex(fields, field_number)].val =
                                                Append(@, entry)])

read_protobuf(d) == read_fields(d, 1, <<>>)

\* sorted(data.items()), line 182: the items by ascending key.
RECURSIVE sorted_items(_)
sorted_items(d) ==
    IF Len(d) = 0 THEN <<>>
    ELSE LET first == CHOOSE i \in 1..Len(d) : \A j \in 1..Len(d) : d[i].key <= d[j].key
         IN <<d[first]>> \o sorted_items(SubSeq(d, 1, first - 1) \o SubSeq(d, first + 1, Len(d)))

\* write_protobuf, lines 177-197.
RECURSIVE write_protobuf(_)

\* lines 183-190: a dict, or a list under a wire type other than 2, is
\* encoded first and written as bytes under wire type 2.
is_packed(e) ==
    \/ e.value.kind = "dict"
    \/ (e.value.kind \in {"list", "values"} /\ e.wire_type # 2)

entry_wire_type(e) == IF is_packed(e) THEN 2 ELSE e.wire_type

as_bytes(b) == IF b.status # "ok" THEN b ELSE Ok(BytesV(b.v))

entry_value(e) ==
    IF e.value.kind = "dict" THEN as_bytes(write_protobuf(e.value.items))
    ELSE IF is_packed(e) THEN as_bytes(write_values(Elements(e.value), e.wire_type))
    ELSE Ok(e.value)

\* lines 191-192: the key, then the value.
written(wire_type, value) ==
    IF value.status # "ok" THEN value ELSE write_protobuf_value(wire_type, value.v)

write_entry_mutant(key, e) ==
    Joined(Ok(write_varint((key * 16) + entry_wire_type(e))),
           written(entry_wire_type(e), entry_value(e)))

write_entry(key, e) ==
    Joined(Ok(write_varint((key * 8) + entry_wire_type(e))),
           written(entry_wire_type(e), entry_value(e)))

RECURSIVE write_entries(_, _)
write_entries(key, entries) ==
    IF Len(entries) = 0 THEN Ok(<<>>)
    ELSE Joined(write_entry(key, entries[1]), write_entries(key, Tail(entries)))

RECURSIVE write_items(_)
write_items(d) ==
    IF Len(d) = 0 THEN Ok(<<>>)
    ELSE Joined(write_entries(d[1].key, d[1].val), write_items(Tail(d)))

write_protobuf(d) == write_items(sorted_items(d))


(***************************************************************************)
(* The structure mapper.  A schema is a dict tag -> mapping and an inverted *)
(* schema a dict name -> mapping; a mapping is a plain name (or tag), or a  *)
(* tuple (target, repeated, child) whose child is None, a wire type, the    *)
(* pair (unwrap_float, wrap_float), the pair (unwrap_bytes, wrap_bytes) or  *)
(* a nested schema.                                                         *)
(***************************************************************************)
PlainM(target) ==
    [kind |-> "plain", target |-> target, repeated |-> FALSE,
     child |-> "none", wire |-> 0, sub |-> <<>>]

TupleM(target, repeated, child, wire, sub) ==
    [kind |-> "tuple", target |-> target, repeated |-> repeated,
     child |-> child, wire |-> wire, sub |-> sub]

RawV(items) == [kind |-> "raw", n |-> 0, b |-> <<>>, items |-> items]

PbEntry(w, v) == [wire_type |-> w, value |-> v]

SchemaItem(tag, mapping) == [key |-> tag, val |-> mapping]

\* guess_wire_type, common.py lines 21-25.
guess_wire_type(value) == IF value.kind \in {"str", "bytes"} THEN 2 ELSE 0

\* The global names of protobuf.py: its imports (lines 1-4) and its
\* functions.  A call of any other name raises NameError.
protobuf_names ==
    { "struct", "BytesIO", "BorderlandsError",
      "remove_structure", "read_varint", "write_varint", "read_protobuf_value",
      "read_repeated_protobuf_value", "write_protobuf_value",
      "write_repeated_protobuf_value", "read_protobuf", "apply_structure",
      "write_protobuf" }

\* invert_structure, common.py lines 28-38.
RECURSIVE invert_structure(_)
RECURSIVE invert_items(_, _)
invert_items(s, inv) ==
    IF Len(s) = 0 THEN inv
    ELSE LET k == s[1].key
             v == s[1].val
         IN invert_items(Tail(s),
              IF v.kind = "tuple"
              THEN DictSet(inv, v.target,
                      IF v.child = "dict"
                      THEN TupleM(k, v.repeated, "dict", v.wire, invert_structure(v.sub))
                      ELSE TupleM(k, v.repeated, v.child, v.wire, v.sub))
              ELSE DictSet(inv, v.target, PlainM(k)))

invert_structure(s) == invert_items(s, <<>>)

\* unwrap_float / unwrap_bytes, common.py lines 9-14, as the decode hook.
decode_hook(child, v) ==
    IF child = "float"
    THEN IF v.kind = "int" THEN Ok(FloatV(v.n)) ELSE Err("struct.error")
    ELSE IF v.kind = "bytes" THEN Ok(ListV(v.b)) ELSE Err("TypeError")

\* [guess_wire_type(v), v], lines 24, 29 and 46 of protobuf.py.
guessed_entry(v) ==
    IF "guess_wire_type" \in protobuf_names
    THEN Ok([wire_type |-> guess_wire_type(v), value |-> v])
    ELSE Err("NameError")

\* wrap_float / wrap_bytes, common.py lines 5-6 and 17-18, as the encode
\* hook, and lines 42-46 of protobuf.py: a list result is the entry, any
\* other result gets a guessed wire type.
encode_hook(child, v) ==
    IF child = "float"
    THEN IF v.kind \in {"float", "int"}
         THEN Ok([wire_type |-> 5, value |-> IntV(v.n)]) ELSE Err("struct.error")
    ELSE IF v.kind \in {"list", "bytes"}
         THEN guessed_entry(BytesV(v.b)) ELSE Err("TypeError")

\* lines 165-174: the '_raw' dict, length-delimited values as lists.
safe_values(entries) ==
    [i \in 1..Len(entries) |->
        IF entries[i].wire_type = 2 /\ entries[i].value.kind = "bytes"
        THEN [entries[i] EXCEPT !.value = ListV(entries[i].value.b)]
        ELSE entries[i]]

safe_raw(raw) ==
    [i \in 1..Len(raw) |-> [key |-> raw[i].key, val |-> safe_values(raw[i].val)]]

\* apply_structure, lines 139-176.
RECURSIVE apply_structure(_, _)
RECURSIVE apply_hooks(_, _)
apply_hooks(child, entries) ==
    IF Len(entries) = 0 THEN Ok(<<>>)
    ELSE LET r == decode_hook(child, entries[1].value) IN
         IF r.status # "ok" THEN r
         ELSE LET rest == apply_hooks(child, Tail(entries)) IN
              IF rest.status # "ok" THEN rest ELSE Ok(<<r.v>> \o rest.v)

RECURSIVE apply_nested(_, _)
apply_nested(child_s, entries) ==
    IF Len(entries) = 0 THEN Ok(<<>>)
    ELSE IF entries[1].value.kind # "bytes" THEN Err("TypeError")
    ELSE LET pb == read_protobuf(entries[1].value.b) IN
         IF pb.status # "ok" THEN pb
         ELSE LET r == apply_structure(pb.v, child_s) IN
              IF r.status # "ok" THEN r
              ELSE LET rest == apply_nested(child_s, Tail(entries)) IN
                   IF rest.status # "ok" THEN rest ELSE Ok(<<DictV(r.v)>> \o rest.v)

\* lines 150-162: the field of one tuple mapping.
apply_tuple(mapping, entries) ==
    LET values ==
          CASE mapping.child = "none" -> Ok([i \in 1..Len(entries) |-> entries[i].value])
            [] mapping.child \in {"float", "bytes"} -> apply_hooks(mapping.child, entries)
            [] mapping.child = "dict" -> apply_nested(mapping.sub, entries)
            [] OTHER -> Ok(<<>>)
    IN IF mapping.child = "int"
       THEN IF ~mapping.repeated THEN Ok(entries[1].value)
            ELSE IF entries[1].value.kind # "bytes" THEN Err("TypeError")
            ELSE read_repeated_protobuf_value(entries[1].value.b, mapping.wire)
       ELSE IF values.status # "ok" THEN values
       ELSE IF mapping.repeated THEN Ok(SeqV(values.v)) ELSE Ok(values.v[1])

RECURSIVE apply_items(_, _, _, _)
apply_items(pbdata, s, fields, raw) ==
    IF Len(pbdata) = 0
    THEN Ok(IF Len(raw) # 0 THEN DictSet(fields, "_raw", RawV(safe_raw(raw))) ELSE fields)
    ELSE LET k == pbdata[1].key
             entries == pbdata[1].val
             i == KeyIndex(s, k)
         IN IF i = 0
            THEN apply_items(Tail(pbdata), s, fields, Append(raw, pbdata[1]))
            ELSE IF s[i].val.kind = "plain"
            THEN apply_items(Tail(pbdata), s,
                             DictSet(fields, s[i].val.target, entries[1].value), raw)
            ELSE LET r == apply_tuple(s[i].val, entries) IN
                 IF r.status # "ok" THEN r
                 ELSE apply_items(Tail(pbdata), s,
                                  DictSet(fields, s[i].val.target, r.v), raw)

apply_structure(pbdata, s) == apply_items(pbdata, s, <<>>, <<>>)


\* remove_structure, lines 7-56.
\* lines 11-19: the '_raw' entries, length-delimited values as bytes again.
wrap_raw_values(entries) ==
    [i \in 1..Len(entries) |->
        IF entries[i].wire_type = 2 /\ entries[i].value.kind \in {"list", "bytes"}
        THEN [entries[i] EXCEPT !.value = BytesV(entries[i].value.b)]
        ELSE entries[i]]

\* wrap_bytes is called for every length-delimited '_raw' value.
wrap_raw_raises(raw) ==
    /\ "wrap_bytes" \notin protobuf_names
    /\ \E i \in 1..Len(raw) : \E j \in 1..Len(raw[i].val) : raw[i].val[j].wire_type = 2

\* The entries of pbdata that still are the lists of '_raw' are changed in
\* place.
wrap_raw(pbdata, raw) ==
    [i \in 1..Len(pbdata) |->
        IF \E j \in 1..Len(raw) : raw[j] = pbdata[i]
        THEN [pbdata[i] EXCEPT !.val = wrap_raw_values(@)] ELSE pbdata[i]]

RECURSIVE guessed(_)
guessed(values) ==
    IF Len(values) = 0 THEN Ok(<<>>)
    ELSE Cons(guessed_entry(values[1]), guessed(Tail(values)))

RECURSIVE remove_structure(_, _)
RECURSIVE remove_hooks(_, _)
remove_hooks(child, values) ==
    IF Len(values) = 0 THEN Ok(<<>>)
    ELSE Cons(encode_hook(child, values[1]), remove_hooks(child, Tail(values)))

\* [2, b]: an entry of wire type 2 for encoded bytes.
bytes_entry(b) ==
    IF b.status # "ok" THEN b ELSE Ok([wire_type |-> 2, value |-> BytesV(b.v)])

\* lines 50-52: [2, write_protobuf(d)] for a nested dict.
nested_entry(d) == IF d.status # "ok" THEN d ELSE bytes_entry(write_protobuf(d.v))

RECURSIVE remove_nested(_, _)
remove_nested(child_inv, values) ==
    IF Len(values) = 0 THEN Ok(<<>>)
    ELSE IF values[1].kind # "dict" THEN Err("AttributeError")
    ELSE Cons(nested_entry(remove_structure(values[1].items, child_inv)),
              remove_nested(child_inv, Tail(values)))

\* lines 31-35: the values of a repeated field as one packed entry.
packed_entries(b) ==
    IF b.status # "ok" THEN b ELSE Ok(<<[wire_type |-> 2, value |-> BytesV(b.v)]>>)

\* lines 26-54: the entries stored for one tuple mapping.
remove_values(mapping, values, value) ==
    CASE mapping.child = "none" -> guessed(values)
      [] mapping.child = "int" ->
           IF mapping.repeated
           THEN packed_entries(write_values(values, mapping.wire))
           ELSE Ok(<<[wire_type |-> mapping.wire, value |-> value]>>)
      [] mapping.child \in {"float", "bytes"} -> remove_hooks(mapping.child, values)
      [] OTHER -> remove_nested(mapping.sub, values)

remove_tuple(mapping, value) ==
    remove_values(mapping,
                  IF mapping.repeated THEN Elements(value) ELSE <<value>>, value)

RECURSIVE remove_items(_, _, _)

\* pbdata[key] = entries, then the rest of the loop.
stored(items, inv, pbdata, target, r) ==
    IF r.status # "ok" THEN r
    ELSE remove_items(Tail(items), inv, DictSet(pbdata, target, r.v))

\* lines 10-55: one turn of the loop, for the mapping at index i of inv.
remove_item(items, inv, pbdata, i) ==
    IF items[1].key = "_raw"
    THEN IF wrap_raw_raises(items[1].val.items) THEN Err("NameError")
         ELSE remove_items(Tail(items), inv, wrap_raw(pbdata, items[1].val.items))
    ELSE IF i = 0 THEN Err("BorderlandsError")
    ELSE stored(items, inv, pbdata, inv[i].val.target,
                IF inv[i].val.kind = "plain" THEN guessed(<<items[1].val>>)
                ELSE remove_tuple(inv[i].val, items[1].val))

remove_items(items, inv, pbdata) ==
    IF Len(items) = 0 THEN Ok(pbdata)
    ELSE remove_item(items, inv, pbdata, KeyIndex(inv, items[1].key))

remove_structure(d, inv) ==
    remove_items(d, inv,
        IF KeyIndex(d, "_raw") = 0 THEN <<>> ELSE d[KeyIndex(d, "_raw")].val.items)


(***************************************************************************)
(* The steps of modify_save.  Each takes the configuration and the engine   *)
(* state st = [p, unlock, status] (the player record, config.unlock, "ok"   *)
(* or the exception that ended the call) and gives the state after it.      *)
(***************************************************************************)
Raise(st, exc) == [st EXCEPT !.status = exc]

\* A step is skipped once an exception has ended the call.
Ended(st) == st.status # "ok"

\* lines 683-692: the XP that goes with level L (1..80) given the current xp.
level_xp_mutant(L, xp) ==
    LET lower == ReqXp(L - 1) IN
    IF L = Len(required_xp)
    THEN IF xp < lower THEN lower ELSE xp
    ELSE IF xp < lower \/ xp > ReqXp(L) THEN lower ELSE xp

level_xp_rewrite_mutant(L, xp) == ReqXp(L - 1)

level_xp(L, xp) ==
    LET lower == ReqXp(L - 1) IN
    IF L = Len(required_xp)
    THEN IF xp # lower THEN lower ELSE xp
    ELSE IF xp < lower \/ xp >= ReqXp(L) THEN lower ELSE xp

\* lines 678-693.
step_level(c, st) ==
    IF Ended(st) \/ IsNone(c.level) THEN st
    ELSE LET L == Val(c.level) IN
         IF L < 1 \/ L > Len(required_xp)
         THEN st     \* self.error() only prints
         ELSE [st EXCEPT !.p.xp = level_xp(L, st.p.xp), !.p.level = L]

\* values[i] = v on a Python list (0-based i): the list, or <<>> with ok
\* FALSE for an IndexError.
list_set_mutant(r, i, v) ==
    IF ~r.ok \/ i >= Len(r.l) THEN [ok |-> FALSE, l |-> r.l]
    ELSE [ok |-> TRUE, l |-> [k \in 1..Len(r.l) |-> IF k >= i + 1 THEN v ELSE r.l[k]]]

list_set(r, i, v) ==
    IF ~r.ok \/ i >= Len(r.l) THEN [ok |-> FALSE, l |-> r.l]
    ELSE [ok |-> TRUE, l |-> [r.l EXCEPT ![i + 1] = v]]

opt_set(r, o, i) == IF IsNone(o) THEN r ELSE list_set(r, i, Val(o))

\* lines 695-727.
step_currency(c, st) ==
    IF \/ Ended(st)
       \/ /\ IsNone(c.money) /\ IsNone(c.eridium) /\ IsNone(c.moonstone)
          /\ IsNone(c.seraph) /\ IsNone(c.torgue)
    THEN st
    ELSE LET r0 == [ok |-> TRUE, l |-> st.p.currency]
             r1 == opt_set(r0, c.money, 0)
             r2 == opt_set(r1, c.eridium, 1)
             r3 == opt_set(r2, c.moonstone, 1)
             r4 == opt_set(r3, c.seraph, 2)
             r5 == opt_set(r4, c.torgue, 4)
         IN IF r5.ok THEN [st EXCEPT !.p.currency = r5.l]
            ELSE Raise(st, "IndexError")


\* lines 744-747 on one entry: the entry after the rewrite (unchanged when
\* the item is skipped).
levels_entry(c, level, e) ==
    IF c.forceitemlevels \/ e.values[5] > 1
    THEN [e EXCEPT !.values =
             repack_values(e.is_weapon, [i \in 1..Len(e.values) |->
                               IF i \in {5, 6} THEN level ELSE e.values[i]])]
    ELSE e

\* item[4] > 1 raises TypeError when item[4] is None.
levels_type_error(c, l) ==
    ~c.forceitemlevels /\ \E i \in 1..Len(l) : l[i].values[5] = NoField

\* lines 732-752.
step_itemlevels(c, st) ==
    IF Ended(st) \/ IsNone(c.itemlevels) THEN st
    ELSE LET level == IF Val(c.itemlevels) > 0 THEN Val(c.itemlevels) ELSE st.p.level IN
         IF IsNone(st.p.items) THEN Raise(st, "KeyError")
         ELSE IF levels_type_error(c, Val(st.p.items)) THEN Raise(st, "TypeError")
         ELSE IF IsNone(st.p.weapons) THEN Raise(st, "KeyError")
         ELSE IF levels_type_error(c, Val(st.p.weapons)) THEN Raise(st, "TypeError")
         ELSE [st EXCEPT
                 !.p.items = Some(<<>> \o [i \in 1..Len(Val(st.p.items)) |->
                                      levels_entry(c, level, Val(st.p.items)[i])]),
                 !.p.weapons = Some(<<>> \o [i \in 1..Len(Val(st.p.weapons)) |->
                                      levels_entry(c, level, Val(st.p.weapons)[i])])]

\* lines 768-770: new_field_data, with 4 | (x << 8) = 4 + 256 * x.
op_field_data_mutant(K) == neg_u64(4 + (Max(0, Min(K, 8388607)) * 16))

op_field_data(K) == neg_u64(4 + (Max(0, Min(K, 8388607)) * 256))

\* lines 779-784: the entry is the existing OP-level item.
is_op_entry(e) ==
    /\ ~IsNone(e.f2)
    /\ is_synthetic(e.values)
    /\ neg_low_byte(Val(e.f2)) = 4

\* lines 777-807: the items container after the OP level is stored.
op_items_mutant(l, nfd) ==
    Append(l, new_op_entry(nfd))

op_items(l, nfd) ==
    IF \E i \in 1..Len(l) : is_op_entry(l[i])
    THEN LET first == CHOOSE i \in 1..Len(l) :
                         /\ is_op_entry(l[i])
                         /\ \A j \in 1..(i - 1) : ~is_op_entry(l[j])
         IN [l EXCEPT ![first].f2 = Some(nfd)]
    ELSE Append(l, new_op_entry(nfd))

\* lines 773-776: config.unlock after the OP-level step.
op_unlock_mutant(K, playthrough, unlock) == unlock

op_unlock(K, playthrough, unlock) ==
    IF K > 0 /\ playthrough < 2 /\ "uvhm" \notin unlock
    THEN unlock \cup {"uvhm"}
    ELSE unlock

\* lines 759-807.
step_oplevel(c, st) ==
    IF Ended(st) \/ IsNone(c.oplevel) THEN st
    ELSE LET K == Val(c.oplevel)
             st1 == [st EXCEPT !.unlock = op_unlock(K, st.p.playthrough, st.unlock)]
         IN IF IsNone(st1.p.items) THEN Raise(st1, "KeyError")
            ELSE [st1 EXCEPT !.p.items = Some(op_items(Val(st1.p.items), op_field_data(K)))]

\* s[:i] + [v] + s[i+1:] on a Python list.
splice(s, i, v) == Slice(s, 0, i) \o <<v>> \o Slice(s, i + 1, Len(s))

\* line 812: the SDU count for a backpack of the given size.
backpack_sdu_mutant(size) == (size - min_backpack_size) \div 3

backpack_sdu(size) == ceil_div(size - min_backpack_size, 3)

\* lines 809-821.
step_backpack(c, st) ==
    IF Ended(st) \/ IsNone(c.backpack) THEN st
    ELSE LET sdu_size == backpack_sdu(Val(c.backpack))
             new_size == min_backpack_size + (sdu_size * 3)
         IN [st EXCEPT !.p.backpack_size = new_size,
                       !.p.sdus = splice(st.p.sdus, 7, sdu_size)]

\* line 826.
bank_sdu(size) == Min(255, ceil_div(size - min_bank_size, 2))

\* lines 823-838.
step_bank(c, st) ==
    IF Ended(st) \/ IsNone(c.bank) THEN st
    ELSE LET sdu_size == bank_sdu(Val(c.bank))
             new_size == min_bank_size + (sdu_size * 2)
             s == IF Len(st.p.sdus) < 9
                  THEN st.p.sdus \o [i \in 1..(9 - Len(st.p.sdus)) |-> 0]
                  ELSE st.p.sdus
         IN [st EXCEPT !.p.bank = Some(new_size),
                       !.p.sdus = splice(s, 8, sdu_size)]

\* lines 840-847.
step_gunslots(c, st) ==
    IF Ended(st) \/ IsNone(c.gunslots) THEN st
    ELSE LET n == Val(c.gunslots) IN
         [st EXCEPT !.p.gunslots = n,
                    !.p.equipped = IF st.p.equipped > n - 2 THEN n - 2 ELSE st.p.equipped]

\* lines 849-855: player[18][1] and player[18][2] must exist.
step_copy_missions(c, st) ==
    IF Ended(st) \/ ~c.copy_nvhm_missions THEN st
    ELSE LET st1 == [st EXCEPT !.unlock = st.unlock \cup {"uvhm"}] IN
         IF Len(st1.p.missions) < 3 THEN Raise(st1, "IndexError")
         ELSE [st1 EXCEPT !.p.missions =
                  [i \in 1..Len(st1.p.missions) |->
                      IF i \in {2, 3} THEN st1.p.missions[1] ELSE st1.p.missions[i]]]

\* lines 930-937: the playthrough flag after the unlock section.
unlock_playthrough_mutant(unlock, flag) ==
    IF "tvhm" \in unlock THEN (IF flag < 1 THEN 1 ELSE flag)
    ELSE IF "uvhm" \in unlock THEN (IF flag < 2 THEN 2 ELSE flag)
    ELSE flag

unlock_playthrough(unlock, flag) ==
    IF "uvhm" \in unlock THEN (IF flag < 2 THEN 2 ELSE flag)
    ELSE IF "tvhm" \in unlock THEN (IF flag < 1 THEN 1 ELSE flag)
    ELSE flag

\* lines 966-972: every ammo slot of the SDU array is set to 7.
unlock_ammo(s) ==
    [i \in 1..Len(s) |->
        IF i <= Len(black_market_keys) /\ black_market_keys[i] \in black_market_ammo_keys
        THEN 7 ELSE s[i]]

(***************************************************************************)
(* The challenge catalog (App.challenges, built by create_bl2_challenges):  *)
(* id -> Challenge, of which modify_save uses get_max(), bonus and          *)
(* get_bonus().                                                             *)
(***************************************************************************)
challenges ==
    [ id \in {123, 124} |->
        IF id = 123 THEN [max |-> 5000, bonus |-> Some(2000)]
        ELSE [max |-> 12345, bonus |-> None] ]

in_catalog(id) == id \in DOMAIN challenges
get_max(id) == Wide(challenges[id].max)
has_bonus(id) == ~IsNone(challenges[id].bonus)
get_bonus(id) == Wide(Val(challenges[id].bonus))

\* lines 918-929: the flag bytes of tag 23 or 24, b'' when the tag is absent.
unlock_dome(o) ==
    LET b == IF IsNone(o) THEN <<>> ELSE Val(o) IN
    IF \E i \in 1..Len(b) : b[i] = 1 THEN b ELSE Append(b, 1)

\* The nested schemas of tags 11, 38 and 19 (save_structure[11][2],
\* save_structure[38][2], save_structure[19][2]), with the names modify_save
\* reads and writes: leaf names, and the float hook for 'amount'.
resources_structure ==
    << SchemaItem(1, PlainM("resource")),
       SchemaItem(2, PlainM("pool")),
       SchemaItem(3, TupleM("amount", FALSE, "float", 0, <<>>)),
       SchemaItem(4, PlainM("level")) >>

challenge_unlocks_structure ==
    << SchemaItem(1, PlainM("dlc_id")),
       SchemaItem(2, PlainM("is_from_dlc")),
       SchemaItem(3, PlainM("name")) >>

appearance_structure == << SchemaItem(1, PlainM("name")) >>

\* write_protobuf(remove_structure(fields, invert_structure(s))), lines 953,
\* 1010, 1027 and 1080: "ok" or the exception raised.
encoded(r) == IF r.status # "ok" THEN r.status ELSE write_protobuf(r.v).status

rebuilt(fields, s) == encoded(remove_structure(fields, invert_structure(s)))

\* The first exception of a sequence of outcomes, "ok" if there is none.
RECURSIVE first_raised(_)
first_raised(outcomes) ==
    IF outcomes = <<>> THEN "ok"
    ELSE IF outcomes[1] # "ok" THEN outcomes[1] ELSE first_raised(Tail(outcomes))

\* The text of a str or bytes value is kept by the record that holds it;
\* the mapper is given a value of the same type.
text_bytes == <<>>

\* lines 946-961: the fields handed to remove_structure for a new entry.
challenge_unlock_fields(e) ==
    << [key |-> "dlc_id", val |-> IntV(e.dlc_id)],
       [key |-> "is_from_dlc", val |-> IntV(e.is_from_dlc)],
       [key |-> "name", val |-> StrV(text_bytes)] >>

\* The catalog's id_text, category.dlc and category.is_from_dlc of an id.
challenge_unlock(id) ==
    [ dlc_id |-> IF id = 124 THEN 1 ELSE 0,
      is_from_dlc |-> IF id = 124 THEN 1 ELSE 0,
      name |-> IF id = 123 THEN "GD_Challenges.enemies.Enemies_KillSkags"
               ELSE "GD_Orchid_Challenges.Enemies.Orchid_KillPirates" ]

\* lines 938-964: an entry is appended to tag 38 for every challenge of the
\* catalog whose id_text is not among the names seen before the loop.
RECURSIVE unlock_challenges(_, _)
unlock_challenges(l, ids) ==
    IF ids = {} THEN <<>>
    ELSE LET id == CHOOSE x \in ids : \A y \in ids : x <= y
             rest == unlock_challenges(l, ids \ {id})
         IN IF \E i \in 1..Len(l) : l[i].name = challenge_unlock(id).name
            THEN rest ELSE <<challenge_unlock(id)>> \o rest

\* lines 947-961: the outcome of encoding the appended entries.
unlock_challenges_raised(l) ==
    LET new == unlock_challenges(l, DOMAIN challenges) IN
    first_raised([i \in 1..Len(new) |->
        rebuilt(challenge_unlock_fields(new[i]), challenge_unlocks_structure)])

\* lines 916-972.
step_unlock(c, st) ==
    IF Ended(st) \/ st.unlock = {} THEN st
    ELSE IF "challenges" \in st.unlock /\ IsNone(st.p.challenge_unlocks)
    THEN Raise(st, "KeyError")
    ELSE [st EXCEPT
            !.status =
                IF "challenges" \in st.unlock
                THEN unlock_challenges_raised(Val(st.p.challenge_unlocks)) ELSE "ok",
            !.p.dome_unlocked =
                IF "slaughterdome" \in st.unlock
                THEN Some(unlock_dome(st.p.dome_unlocked)) ELSE st.p.dome_unlocked,
            !.p.dome_notifications =
                IF "slaughterdome" \in st.unlock
                THEN Some(unlock_dome(st.p.dome_notifications))
                ELSE st.p.dome_notifications,
            !.p.playthrough = unlock_playthrough(st.unlock, st.p.playthrough),
            !.p.challenge_unlocks =
                IF "challenges" \in st.unlock
                THEN Some(Val(st.p.challenge_unlocks)
                          \o unlock_challenges(Val(st.p.challenge_unlocks),
                                               DOMAIN challenges))
                ELSE st.p.challenge_unlocks,
            !.p.sdus = IF "ammo" \in st.unlock THEN unlock_ammo(st.p.sdus) ELSE st.p.sdus]

\* black_market_ammo of AppBL2, bl2.py lines 36-44.
black_market_ammo ==
    [ grenade |-> <<3, 4, 5, 6, 7, 8, 9, 10>>,
      launcher |-> <<12, 15, 18, 21, 24, 27, 30, 33>>,
      pistol |-> <<200, 300, 400, 500, 600, 700, 800, 900>>,
      rifle |-> <<280, 420, 560, 700, 840, 980, 1120, 1260>>,
      shotgun |-> <<80, 100, 120, 140, 160, 180, 200, 220>>,
      smg |-> <<360, 540, 720, 900, 1080, 1260, 1440, 1620>>,
      sniper |-> <<48, 60, 72, 84, 96, 108, 120, 132>> ]

\* App.ammo_resources, lines 228-249: (resource, pool) of every ammo type.
ammo_resources ==
    [ rifle |-> <<"D_Resources.AmmoResources.Ammo_Combat_Rifle",
                  "D_Resourcepools.AmmoPools.Ammo_Combat_Rifle_Pool">>,
      shotgun |-> <<"D_Resources.AmmoResources.Ammo_Combat_Shotgun",
                    "D_Resourcepools.AmmoPools.Ammo_Combat_Shotgun_Pool">>,
      grenade |-> <<"D_Resources.AmmoResources.Ammo_Grenade_Protean",
                    "D_Resourcepools.AmmoPools.Ammo_Grenade_Protean_Pool">>,
      smg |-> <<"D_Resources.AmmoResources.Ammo_Patrol_SMG",
                "D_Resourcepools.AmmoPools.Ammo_Patrol_SMG_Pool">>,
      pistol |-> <<"D_Resources.AmmoResources.Ammo_Repeater_Pistol",
                   "D_Resourcepools.AmmoPools.Ammo_Repeater_Pistol_Pool">>,
      launcher |-> <<"D_Resources.AmmoResources.Ammo_Rocket_Launcher",
                     "D_Resourcepools.AmmoPools.Ammo_Rocket_Launcher_Pool">>,
      sniper |-> <<"D_Resources.AmmoResources.Ammo_Sniper_Rifle",
                   "D_Resourcepools.AmmoPools.Ammo_Sniper_Rifle_Pool">>,
      laser |-> <<"D_Resources.AmmoResources.Ammo_Combat_Laser",
                  "D_Resourcepools.AmmoPools.Ammo_Combat_Laser_Pool">> ]

\* ammo_resource_lookup, lines 1258-1260: the ammo type of a resource path,
\* "" when the path is not in the lookup.
ammo_resource_lookup(resource) ==
    IF \E t \in DOMAIN ammo_resources : ammo_resources[t][1] = resource
    THEN CHOOSE t \in DOMAIN ammo_resources : ammo_resources[t][1] = resource
    ELSE ""

RECURSIVE Log2(_)
Log2(n) == IF n < 2 THEN 0 ELSE 1 + Log2(n \div 2)

\* wrap_float, common.py lines 5-6, on float(n) for an integer 0 <= n < 2^24:
\* the IEEE-754 single as an unsigned 32-bit number.
wrap_float(n) ==
    IF n = 0 THEN 0
    ELSE LET e == Log2(n) IN
         ((127 + e) * Pow2(23)) + ((n - Pow2(e)) * Pow2(23 - e))

\* lines 980-981: bm_levels, as the number of keys zip() pairs with a level.
bm_count(s) == Min(Len(black_market_keys), Len(s))

bm_index(t) == CHOOSE i \in 1..Len(black_market_keys) : black_market_keys[i] = t

in_bm_levels(s, t) ==
    \E i \in 1..bm_count(s) : black_market_keys[i] = t

\* lines 988-992: the (level, amount) pair of one ammo type.
max_ammo(ammo_values, ammo_level) ==
    IF Len(ammo_values) - 1 < ammo_level
    THEN <<Len(ammo_values) - 1, ammo_values[Len(ammo_values)]>>
    ELSE <<ammo_level, ammo_values[ammo_level + 1]>>

\* lines 985-992: ammo_type in max_ammo, and its entry.
in_max_ammo(s, t) == in_bm_levels(s, t) /\ t \in DOMAIN black_market_ammo

max_ammo_of(s, t) == max_ammo(black_market_ammo[t], s[bm_index(t)])

\* lines 998-1015: one record of tag 11.
ammo_record(s, r) ==
    LET t == ammo_resource_lookup(r.resource) IN
    IF t # "" /\ in_max_ammo(s, t)
    THEN [r EXCEPT !.level = max_ammo_of(s, t)[1],
                   !.amount = wrap_float(max_ammo_of(s, t)[2])]
    ELSE r       \* self.error() only prints

\* lines 1012-1015: self.error() is called for a record whose resource is
\* not in ammo_resource_lookup, or whose ammo type is not in max_ammo.
ammo_error_reported(s, l) ==
    \E i \in 1..Len(l) :
        \/ ammo_resource_lookup(l[i].resource) = ""
        \/ ~in_max_ammo(s, ammo_resource_lookup(l[i].resource))

\* lines 1019-1027: the records appended for the types of bm_levels (in the
\* order of the keys) that are in ammo_resources and were not seen.
RECURSIVE new_ammo_records(_, _, _)
new_ammo_records(s, seen, i) ==
    IF i > bm_count(s) THEN <<>>
    ELSE LET t == black_market_keys[i] IN
         IF t \in DOMAIN ammo_resources /\ t \notin seen
         THEN << [ resource |-> ammo_resources[t][1],
                   pool |-> ammo_resources[t][2],
                   level |-> max_ammo_of(s, t)[1],
                   amount |-> wrap_float(max_ammo_of(s, t)[2]) ] >>
              \o new_ammo_records(s, seen, i + 1)
         ELSE new_ammo_records(s, seen, i + 1)

\* The fields of a record of tag 11 handed to remove_structure: at line
\* 1010 those apply_structure gave (bytes), at line 1027 new_struct (str).
ammo_fields(r, is_new) ==
    << [key |-> "resource",
        val |-> IF is_new THEN StrV(text_bytes) ELSE BytesV(text_bytes)],
       [key |-> "pool",
        val |-> IF is_new THEN StrV(text_bytes) ELSE BytesV(text_bytes)],
       [key |-> "amount", val |-> FloatV(r.amount)],
       [key |-> "level", val |-> IntV(r.level)] >>

\* lines 997-1027: the outcome of encoding the records that are rewritten
\* (in the order of tag 11) and then those that are appended.
max_ammo_raised(s, l, seen) ==
    LET old == <<>> \o [i \in 1..Len(l) |->
                   IF ammo_resource_lookup(l[i].resource) # ""
                      /\ in_max_ammo(s, ammo_resource_lookup(l[i].resource))
                   THEN rebuilt(ammo_fields(ammo_record(s, l[i]), FALSE),
                                resources_structure)
                   ELSE "ok"]
        new == new_ammo_records(s, seen, 1)
    IN first_raised(old \o [i \in 1..Len(new) |->
                        rebuilt(ammo_fields(new[i], TRUE), resources_structure)])

\* lines 976-1027.
step_maxammo(c, st) ==
    IF Ended(st) \/ IsNone(c.maxammo) THEN st
    ELSE IF IsNone(st.p.resources) THEN Raise(st, "KeyError")
    ELSE LET s == st.p.sdus
             l == Val(st.p.resources)
             seen == { ammo_resource_lookup(l[i].resource) : i \in 1..Len(l) } \ {""}
         IN [st EXCEPT
                !.status = max_ammo_raised(s, l, seen),
                !.p.resources =
                    Some(<<>> \o [i \in 1..Len(l) |-> ammo_record(s, l[i])]
                         \o new_ammo_records(s, seen, 1))]


(***************************************************************************)
(* struct.pack / struct.unpack with an explicit byte order, standard sizes  *)
(* ('I' four bytes, 'H' two, 'B' one, no padding).                          *)
(***************************************************************************)
Reverse(b) == [i \in 1..Len(b) |-> b[Len(b) + 1 - i]]

pack_u16(endian, n) ==
    IF endian = ">" THEN <<n \div 256, n % 256>> ELSE <<n % 256, n \div 256>>

pack_u32(endian, w) ==
    IF endian = ">" THEN pack_u16(">", w[1]) \o pack_u16(">", w[2])
    ELSE pack_u16("<", w[2]) \o pack_u16("<", w[1])

unpack_u16(endian, b) ==
    IF endian = ">" THEN (b[1] * 256) + b[2] ELSE (b[2] * 256) + b[1]

unpack_u32(endian, b) ==
    IF endian = ">"
    THEN <<unpack_u16(">", SubSeq(b, 1, 2)), unpack_u16(">", SubSeq(b, 3, 4))>>
    ELSE <<unpack_u16("<", SubSeq(b, 3, 4)), unpack_u16("<", SubSeq(b, 1, 2))>>

(***************************************************************************)
(* The challenge log (tag 15).                                              *)
(***************************************************************************)
\* struct.unpack(endian + 'HBIBI', data[idx : idx + 12]), lines 479-485.
unwrap_challenge(endian, b) ==
    [ id |-> unpack_u16(endian, SubSeq(b, 1, 2)),
      first_one |-> b[3],
      total_value |-> unpack_u32(endian, SubSeq(b, 4, 7)),
      second_one |-> b[8],
      previous_value |-> unpack_u32(endian, SubSeq(b, 9, 12)) ]

\* lines 463-495.  The annotations (_id_text, _name, ...) are not kept: they
\* are present exactly for the ids of the catalog.
unwrap_challenges_mutant(endian, d) ==
    IF Len(d) < 10 THEN [status |-> "struct.error"]
    ELSE LET num_challenges == Min(unpack_u16(endian, SubSeq(d, 9, 10)), (Len(d) - 10) \div 12)
         IN [ status |-> "ok",
              unknown |-> unpack_u32(endian, SubSeq(d, 1, 4)),
              challenges |-> [i \in 1..num_challenges |->
                  unwrap_challenge(endian, SubSeq(d, (12 * i) - 1, (12 * i) + 10))] ]

unwrap_challenges(endian, d) ==
    IF Len(d) < 10 THEN [status |-> "struct.error"]
    ELSE LET unknown == unpack_u32(endian, SubSeq(d, 1, 4))
             size_in_bytes == unpack_u32(endian, SubSeq(d, 5, 8))
             num_challenges == unpack_u16(endian, SubSeq(d, 9, 10))
         IN IF WAdd(size_in_bytes, Wide(8)) # Wide(Len(d))
            THEN [status |-> "BorderlandsError"]
            ELSE IF WAdd(Wide(num_challenges * 12), Wide(2)) # size_in_bytes
            THEN [status |-> "BorderlandsError"]
            ELSE [ status |-> "ok",
                   unknown |-> unknown,
                   challenges |-> [i \in 1..num_challenges |->
                       unwrap_challenge(endian, SubSeq(d, (12 * i) - 1, (12 * i) + 10))] ]

\* struct.pack(endian + 'HBIBI', ...), lines 551-558.
wrap_challenge(endian, ch) ==
    pack_u16(endian, ch.id) \o <<ch.first_one>>
        \o pack_u32(endian, ch.total_value) \o <<ch.second_one>>
        \o pack_u32(endian, ch.previous_value)

RECURSIVE Concat(_)
Concat(ss) == IF Len(ss) = 0 THEN <<>> ELSE Head(ss) \o Concat(Tail(ss))

\* struct.pack raises struct.error for a value outside the format's range.
wrap_challenges_fails(d) ==
    \/ ~FitsU32(d.unknown)
    \/ \E i \in 1..Len(d.challenges) :
          \/ ~FitsU32(d.challenges[i].total_value)
          \/ ~FitsU32(d.challenges[i].previous_value)

\* lines 539-560: the header of the block.
challenges_header_mutant(endian, d) ==
    pack_u32(endian, d.unknown)
        \o pack_u32(endian, Wide(Len(d.challenges) * 12))
        \o pack_u16(endian, Len(d.challenges))

challenges_header(endian, d) ==
    pack_u32(endian, d.unknown)
        \o pack_u32(endian, Wide((Len(d.challenges) * 12) + 2))
        \o pack_u16(endian, Len(d.challenges))

wrap_challenges(endian, d) ==
    challenges_header(endian, d)
        \o Concat([i \in 1..Len(d.challenges) |-> wrap_challenge(endian, d.challenges[i])])

\* lines 1049-1054: total_value after the 'zero' and 'max' options.
zero_max_value_mutant(opts, ch) ==
    IF "max" \in opts THEN get_max(ch.id)
    ELSE IF "zero" \in opts THEN Wide(0)
    ELSE ch.total_value

zero_max_value(opts, ch) ==
    IF "max" \in opts THEN WAdd(ch.previous_value, get_max(ch.id))
    ELSE IF "zero" \in opts THEN ch.previous_value
    ELSE ch.total_value

\* lines 1055-1060: total_value after the 'bonus' option, t being the value
\* the 'zero' and 'max' options left.
bonus_value_mutant(opts, ch, t) ==
    IF "bonus" \in opts /\ has_bonus(ch.id)
    THEN LET bonus_value == WAdd(ch.previous_value, get_bonus(ch.id)) IN
         IF WLess(t, bonus_value) THEN bonus_value ELSE t
    ELSE t

bonus_value(opts, ch, t) ==
    IF "bonus" \in opts /\ has_bonus(ch.id)
    THEN LET bonus_value == WAdd(ch.previous_value, get_bonus(ch.id)) IN
         IF "max" \in opts \/ "zero" \in opts \/ WLess(t, bonus_value)
         THEN bonus_value ELSE t
    ELSE t

\* lines 1047-1060 on one entry.
challenge_entry(opts, ch) ==
    IF in_catalog(ch.id)
    THEN [ch EXCEPT !.total_value = bonus_value(opts, ch, zero_max_value(opts, ch))]
    ELSE ch

\* lines 1029-1062.
step_challenges(c, st) ==
    IF Ended(st) \/ c.challenges = {} THEN st
    ELSE LET d == unwrap_challenges(c.endian, st.p.challenges) IN
         IF d.status # "ok" THEN Raise(st, d.status)
         ELSE LET d2 == [d EXCEPT !.challenges =
                           [i \in 1..Len(d.challenges) |->
                               challenge_entry(c.challenges, d.challenges[i])]]
              IN IF wrap_challenges_fails(d2) THEN Raise(st, "struct.error")
                 ELSE [st EXCEPT !.p.challenges = wrap_challenges(c.endian, d2)]

\* lines 1067-1071 on one entry.
overflow_entry_mutant(ch) ==
    IF in_catalog(ch.id) /\ WGeq(ch.total_value, Wide(2000000000))
    THEN [ch EXCEPT !.total_value = get_max(ch.id)]
    ELSE ch

overflow_entry(ch) ==
    IF in_catalog(ch.id) /\ WGeq(ch.total_value, Wide(2000000000))
    THEN [ch EXCEPT !.total_value = WAdd(get_max(ch.id), Wide(1))]
    ELSE ch

\* lines 1064-1073.
step_fix_overflow(c, st) ==
    IF Ended(st) \/ ~c.fix_challenge_overflow THEN st
    ELSE LET d == unwrap_challenges(c.endian, st.p.challenges) IN
         IF d.status # "ok" THEN Raise(st, d.status)
         ELSE LET d2 == [d EXCEPT !.challenges =
                           [i \in 1..Len(d.challenges) |-> overflow_entry(d.challenges[i])]]
              IN IF wrap_challenges_fails(d2) THEN Raise(st, "struct.error")
                 ELSE [st EXCEPT !.p.challenges = wrap_challenges(c.endian, d2)]

\* lines 1075-1085.
step_name_id(c, st) ==
    IF Ended(st) THEN st ELSE
    LET st1 == IF ~IsNone(c.name) /\ Val(c.name) # ""
               THEN [st EXCEPT
                       !.status = rebuilt(<<[key |-> "name", val |-> StrV(text_bytes)]>>,
                                          appearance_structure),
                       !.p.name = Val(c.name)]
               ELSE st
    IN IF Ended(st1) THEN st1
       ELSE IF ~IsNone(c.save_game_id) /\ Val(c.save_game_id) > 0
       THEN [st1 EXCEPT !.p.save_game_id = Val(c.save_game_id)] ELSE st1

\* modify_save, lines 666-1087, on the decoded record: the engine state the
\* call ends in.  The record holds tags 2, 3, 6, 7, 11, 13, 15, 18, 19, 20,
\* 23, 24, 36, 38, 41, 53, 54 and 56.
modify_save_order_mutant(c, p) ==
    LET s0 == [p |-> p, unlock |-> c.unlock, status |-> "ok"]
        s1 == step_itemlevels(c, s0)
        s2 == step_level(c, s1)
    IN s2

modify_save(c, p) ==
    LET s0 == [p |-> p, unlock |-> c.unlock, status |-> "ok"]
        s1 == step_level(c, s0)
        s2 == step_currency(c, s1)
        s3 == step_itemlevels(c, s2)
        s4 == step_oplevel(c, s3)
        s5 == step_backpack(c, s4)
        s6 == step_bank(c, s5)
        s7 == step_gunslots(c, s6)
        s8 == step_copy_missions(c, s7)
        s9 == step_unlock(c, s8)
        s10 == step_maxammo(c, s9)
        s11 == step_challenges(c, s10)
        s12 == step_fix_overflow(c, s11)
        s13 == step_name_id(c, s12)
    IN s13


(***************************************************************************)
(* The program: parse_args has filled the Config (pc = "parsed"),           *)
(* Config.finish checks and completes it, and then either run() or a direct *)
(* call of modify_save acts on the record.                                  *)
(***************************************************************************)
\* Config.finish, lines 84-174: parser.error() ends the process.
Finish ==
    /\ pc = "parsed"
    /\ IF finish_fails(config)
       THEN /\ pc' = "usage"
            /\ config' = config
       ELSE /\ pc' = "finished"
            /\ config' = finish(config)
    /\ UNCHANGED <<config0, player0, player, status, called, data, result>>

\* App.modify_save called on the record; config.unlock keeps what the call
\* added to it, and the record is replaced only when the call returns.
ModifySave ==
    /\ pc \in {"finished", "modified"}
    /\ status = "ok"
    /\ called < MaxCalls
    /\ LET r == modify_save(config, player) IN
         /\ config' = [config EXCEPT !.unlock = r.unlock]
         /\ status' = r.status
         /\ player' = IF r.status = "ok" THEN r.p ELSE player
    /\ pc' = "modified"
    /\ called' = called + 1
    /\ UNCHANGED <<config0, player0, data, result>>

\* App.run, lines 1536-1539 and 1593-1595: modify_save only when
\* config.changes, then the save is written.
Run ==
    /\ pc = "finished"
    /\ IF config.changes
       THEN LET r == modify_save(config, player) IN
              /\ config' = [config EXCEPT !.unlock = r.unlock]
              /\ status' = r.status
              /\ player' = IF r.status = "ok" THEN r.p ELSE player
              /\ called' = called + 1
       ELSE UNCHANGED <<config, status, player, called>>
    /\ pc' = "done"
    /\ UNCHANGED <<config0, player0, data, result>>

Next == Finish \/ ModifySave \/ Run

(***************************************************************************)
(* Initial states: a record and a configuration drawn from small sets.      *)
(***************************************************************************)
EmptyLog == [unknown |-> Wide(4), challenges |-> <<>>]

BasePlayer ==
    [ level |-> 50, xp |-> ReqXp(49),
      currency |-> <<1000, 10, 0, 0, 0>>,
      playthrough |-> 1,
      backpack_size |-> 12, gunslots |-> 2, equipped |-> 0,
      sdus |-> <<0, 0, 0, 0, 0, 0, 0, 0, 0>>,
      bank |-> None,
      missions |-> <<1, 2, 3>>,
      items |-> Some(<<>>), weapons |-> Some(<<>>), bank_items |-> Some(<<>>),
      resources |-> Some(<<>>),
      dome_unlocked |-> None, dome_notifications |-> None,
      challenge_unlocks |-> Some(<<>>),
      challenges |-> wrap_challenges("<", EmptyLog),
      name |-> "Axton", save_game_id |-> 1 ]

InitWith(cfgs, players) ==
    /\ config0 \in cfgs
    /\ config = config0
    /\ player0 \in players
    /\ player = player0
    /\ pc = "parsed"
    /\ status = "ok"
    /\ called = 0
    /\ data = <<>>
    /\ result = [status |-> "none"]

\* XP values around the bounds of level L, and a few fixed ones.
XpCases(L) ==
    {0, ReqXp(49), ReqXp(79) + 5}
        \cup (IF L \in 1..80 THEN {ReqXp(L - 1), Max(0, ReqXp(L - 1) - 1)} ELSE {})
        \cup (IF L \in 1..79 THEN {ReqXp(L) - 1, ReqXp(L)} ELSE {})

InitLevel ==
    \E L \in 0..(max_level + 1) :
        InitWith({[DefaultConfig EXCEPT !.level = Some(L)]},
                 {[BasePlayer EXCEPT !.xp = x] : x \in XpCases(L)})

SpecLevel == InitLevel /\ [][Next]_vars

(***************************************************************************)
(* C1: after modify_save with level = L (1 <= L <= 80) the level field is L *)
(* and the stored xp lies in [required_xp[L-1], required_xp[L]) when        *)
(* L < 80 and equals required_xp[79] when L = 80, whatever the xp was; in   *)
(* particular L = 72 on the level-50 xp gives 9520931.                      *)
(***************************************************************************)
Modified == pc \in {"modified", "done"} /\ called > 0 /\ status = "ok"

C1_LevelXp ==
    (Modified /\ ~IsNone(config.level)) =>
        LET L == Val(config.level) IN
        /\ player.level = L
        /\ L < 80 => (required_xp[L] <= player.xp /\ player.xp < required_xp[L + 1])
        /\ L = 80 => player.xp = required_xp[80]
        /\ (L = 72 /\ player0.xp = 3429728) => player.xp = 9520931

C1_Witness ==
    /\ Modified
    /\ config.level = Some(72)
    /\ player0.xp = 3429728
    /\ player.xp = 9520931
    /\ player.level = 72


(***************************************************************************)
(* Backpack and bank sizes.                                                 *)
(***************************************************************************)
SizeArgs == {MaxArg, JunkArg} \cup {IntArg(n) : n \in (-2)..MaxSizeArg}

SduArrays ==
    { <<0, 0, 0, 0, 0, 0, 0, 0, 0>>, <<1, 2, 3, 4, 5, 6, 7, 3, 2>>,
      <<1, 2, 3, 4, 5, 6, 7, 3, 2, 1>>, <<1, 2, 3>> }

SizePlayers ==
    { [BasePlayer EXCEPT !.sdus = s, !.bank = b] :
        s \in SduArrays, b \in {None, Some(8)} }

InitSize ==
    InitWith(
        { [DefaultConfig EXCEPT !.backpack = Some(a), !.bank = b] :
            a \in SizeArgs, b \in {None, Some(IntArg(9))} }
        \cup
        { [DefaultConfig EXCEPT !.bank = Some(a), !.backpack = b] :
            a \in SizeArgs, b \in {None, Some(IntArg(20))} },
        SizePlayers)

SpecSize == InitSize /\ [][Next]_vars

\* The size a size argument asks for, clamped to [lo, hi].
Requested(arg, lo, hi) ==
    IF arg.kind = "max" THEN hi ELSE Max(lo, Min(arg.n, hi))

\* k = ceil((c - lo) / step), said without dividing.
IsCeil(k, c, lo, step) ==
    /\ k >= 0
    /\ lo + (step * k) >= c
    /\ lo + (step * (k - 1)) < c

\* The slot of the SDU array the backpack step writes (s[:7] + [sdu] + s[8:]).
BackpackSlot == Min(7, Len(player0.sdus)) + 1

(***************************************************************************)
(* C2: for every requested backpack size S (an integer or 'max'), after     *)
(* Config.finish and modify_save the stored backpack size is                *)
(* 12 + 3 * ceil((clamp(S, 12, 39) - 12) / 3), the SDU value written is     *)
(* that ceil term and the stored size never exceeds 39; for the bank the    *)
(* stored size is 6 + 2 * ceil((clamp(S, 6, 24) - 6) / 2) and never exceeds *)
(* 24.  For backpack 'max' the stored size is 39 and the SDU value is 9.    *)
(***************************************************************************)
C2_SduCoherence ==
    Modified =>
        /\ ~IsNone(config0.backpack) =>
              LET k == player.sdus[BackpackSlot]
                  c == Requested(Val(config0.backpack), 12, 39)
              IN /\ IsCeil(k, c, 12, 3)
                 /\ player.backpack_size = 12 + (3 * k)
                 /\ player.backpack_size <= 39
                 /\ Val(config0.backpack).kind = "max" =>
                       (player.backpack_size = 39 /\ k = 9)
        /\ ~IsNone(config0.bank) =>
              LET k == player.sdus[9]
                  c == Requested(Val(config0.bank), 6, 24)
              IN /\ IsCeil(k, c, 6, 2)
                 /\ player.bank = Some(6 + (2 * k))
                 /\ Val(player.bank) <= 24

C2_Witness ==
    /\ Modified
    /\ config0.backpack = Some(MaxArg)
    /\ config0.bank = Some(IntArg(9))
    /\ player.backpack_size = 39
    /\ player.sdus[8] = 9
    /\ player.bank = Some(10)
    /\ player.sdus[9] = 2


(***************************************************************************)
(* OP level, playthrough flag and the items container.                      *)
(***************************************************************************)
SyntheticValues == [i \in 1..ItemFields |-> IF i = 1 THEN 255 ELSE 0]

ItemSamples ==
    { \* an ordinary level-30 item
      [ is_weapon |-> 0,
        values |-> <<3, 70, 1100, 9, 30, 30, 5, 6, 7, 8, 9, 10,
                     NoField, NoField, NoField, NoField, NoField>>,
        key |-> 77, f2 |-> Some(<<0, 0, 0, 1>>), f3 |-> Some(0), f4 |-> Some(1) ],
      \* the OP-level item, holding OP level 3
      [ is_weapon |-> 0, values |-> SyntheticValues, key |-> 0,
        f2 |-> Some(neg_u64(4 + (3 * 256))), f3 |-> Some(0), f4 |-> Some(0) ],
      \* another synthetic item (id 1)
      [ is_weapon |-> 0, values |-> SyntheticValues, key |-> 0,
        f2 |-> Some(neg_u64(1 + (500 * 256))), f3 |-> Some(0), f4 |-> Some(0) ],
      \* a synthetic item without tag 2
      [ is_weapon |-> 0, values |-> SyntheticValues, key |-> 0,
        f2 |-> None, f3 |-> Some(0), f4 |-> Some(0) ],
      \* set 255 and id 4, but a short body: the last fields decode to None
      [ is_weapon |-> 0,
        values |-> [i \in 1..ItemFields |->
                       IF i = 1 THEN 255 ELSE IF i > 12 THEN NoField ELSE 0],
        key |-> 5, f2 |-> Some(neg_u64(4 + (2 * 256))), f3 |-> Some(0), f4 |-> Some(0) ] }

RECURSIVE SeqsUpTo(_, _)
SeqsUpTo(S, n) ==
    IF n = 0 THEN {<<>>}
    ELSE LET shorter == SeqsUpTo(S, n - 1) IN
         shorter \cup {Append(q, x) : q \in shorter, x \in S}

OpLevels == {-1, 0, 1, 10, 11, 8388607, 8388608}

OpConfigs ==
    { [DefaultConfig EXCEPT !.oplevel = o, !.unlock = u, !.copy_nvhm_missions = m] :
        o \in {None} \cup {Some(K) : K \in OpLevels},
        u \in SUBSET {"uvhm", "tvhm"},
        m \in BOOLEAN }

OpPlayers ==
    { [BasePlayer EXCEPT !.playthrough = f, !.items = Some(l)] :
        f \in 0..2, l \in SeqsUpTo(ItemSamples, MaxItems) }
    \cup { [BasePlayer EXCEPT !.playthrough = f, !.items = None] : f \in 0..2 }
    \cup { [BasePlayer EXCEPT !.playthrough = f, !.missions = <<1, 2>>] : f \in 0..2 }

InitOp == InitWith(OpConfigs, OpPlayers)

SpecOp == InitOp /\ [][Next]_vars

\* u + v = 0 modulo 2^64, for an unsigned 64-bit u (four limbs) and
\* 0 <= v < 2^31: u is the unsigned form of -v.
IsNegOf(u, v) ==
    LET s0 == u[4] + (v % 65536)
        s1 == u[3] + (v \div 65536) + (s0 \div 65536)
        s2 == u[2] + (s1 \div 65536)
        s3 == u[1] + (s2 \div 65536)
    IN s0 % 65536 = 0 /\ s1 % 65536 = 0 /\ s2 % 65536 = 0 /\ s3 % 65536 = 0

HasOpItem(l) == \E i \in 1..Len(l) : is_op_entry(l[i])

(***************************************************************************)
(* C3: after modify_save with oplevel = K the items container (tag 53)      *)
(* holds a synthetic item (set 255, every other field 0) whose tag-2 value  *)
(* is the unsigned 64-bit form of -(4 | (clamp(K, 0, 0x7FFFFF) << 8)),      *)
(* whether an existing OP-level item was updated (the container keeps its   *)
(* length) or a new one was appended (one entry more); for K = 10 the value *)
(* is 0xFFFFFFFFFFFFF5FC.                                                   *)
(***************************************************************************)
C3_OpLevelItem ==
    (Modified /\ ~IsNone(config.oplevel)) =>
        LET K == Val(config.oplevel)
            l == Val(player.items)
            l0 == Val(player0.items)
        IN /\ \E i \in 1..Len(l) :
                 /\ l[i].values[1] = 255
                 /\ \A j \in 2..ItemFields : l[i].values[j] = 0
                 /\ ~IsNone(l[i].f2)
                 /\ IsNegOf(Val(l[i].f2), 4 + (256 * Max(0, Min(K, 8388607))))
                 /\ K = 10 => Val(l[i].f2) = <<65535, 65535, 65535, 62972>>
           /\ Len(l) = Len(l0) + (IF HasOpItem(l0) THEN 0 ELSE 1)
           /\ \A i \in 1..Len(l0) : ~is_op_entry(l0[i]) => l[i] = l0[i]

C3_Witness ==
    /\ Modified
    /\ called = 1
    /\ config.oplevel = Some(10)
    /\ player0.playthrough = 1
    /\ player.playthrough = 2
    /\ Len(Val(player0.items)) = 2
    /\ ~HasOpItem(Val(player0.items))
    /\ Len(Val(player.items)) = 3
    /\ Val(player.items)[3].f2 = Some(<<65535, 65535, 65535, 62972>>)

C3_WitnessUpdated ==
    /\ Modified
    /\ config.oplevel = Some(10)
    /\ HasOpItem(Val(player0.items))
    /\ Len(Val(player.items)) = Len(Val(player0.items))

(***************************************************************************)
(* C4 as claimed: when oplevel = K > 0 is requested and the playthrough     *)
(* flag (tag 7) is below 2, the flag is 2 in the result of the same         *)
(* modify_save call even though no unlock option was given; when K = 0 and  *)
(* no unlock option is given the flag is unchanged.                         *)
(***************************************************************************)
C4_Claimed ==
    (Modified /\ ~IsNone(config0.oplevel)) =>
        LET K == Val(config0.oplevel) IN
        /\ (K > 0 /\ player0.playthrough < 2) => player.playthrough = 2
        /\ (K = 0 /\ config0.unlock = {}) => player.playthrough = player0.playthrough

(***************************************************************************)
(* C4 as amended: when oplevel = K > 0 is requested and the playthrough     *)
(* flag is below 2, the flag is 2 in the result of the same modify_save     *)
(* call even though no unlock option was given; when K = 0, no unlock       *)
(* option is given and copy_nvhm_missions is not requested, the flag is     *)
(* unchanged.                                                               *)
(***************************************************************************)
C4_OpLevelUnlocksUvhm ==
    (Modified /\ ~IsNone(config0.oplevel)) =>
        LET K == Val(config0.oplevel) IN
        /\ (K > 0 /\ player0.playthrough < 2) => player.playthrough = 2
        /\ (K = 0 /\ config0.unlock = {} /\ ~config0.copy_nvhm_missions) =>
              player.playthrough = player0.playthrough

C4_Witness ==
    /\ Modified
    /\ called = 1
    /\ config0.oplevel = Some(1)
    /\ config0.unlock = {}
    /\ ~config0.copy_nvhm_missions
    /\ player0.playthrough = 0
    /\ player.playthrough = 2


(***************************************************************************)
(* The challenge log: the challenges options and fix_challenge_overflow.    *)
(***************************************************************************)
Entry(id, total, previous) ==
    [ id |-> id, first_one |-> 1, total_value |-> total,
      second_one |-> 1, previous_value |-> previous ]

ChallengeSamples ==
    { Entry(123, Wide(500), Wide(1000)),
      Entry(123, Wide(4000), Wide(1000)),
      Entry(123, Wide(2000000000), Wide(1000)),
      Entry(123, Wide(10), <<65535, 65000>>),
      Entry(124, Wide(2100000000), Wide(0)),
      Entry(124, Wide(1999999999), Wide(7)),
      Entry(999, Wide(2100000000), Wide(5)) }

Logs ==
    { [unknown |-> Wide(4), challenges |-> l] :
        l \in SeqsUpTo(ChallengeSamples, MaxChallenges) }

\* A well-formed block as found in a save: header (unknown, size, count) and
\* twelve bytes per entry.
SaveBlock(e, d) ==
    pack_u32(e, d.unknown)
        \o pack_u32(e, Wide((12 * Len(d.challenges)) + 2))
        \o pack_u16(e, Len(d.challenges))
        \o Concat([i \in 1..Len(d.challenges) |-> wrap_challenge(e, d.challenges[i])])

\* Blocks that break a size law: a wrong size, a wrong count, length and
\* size agreeing with each other but not with the count, a missing byte, an
\* extra byte, and a block shorter than its header.
OneEntryBlock ==
    SaveBlock("<", [unknown |-> Wide(4),
                    challenges |-> <<Entry(123, Wide(500), Wide(1000))>>])

BrokenBlocks ==
    { [OneEntryBlock EXCEPT ![5] = 15],
      [OneEntryBlock EXCEPT ![9] = 2],
      [OneEntryBlock EXCEPT ![5] = 26] \o [i \in 1..12 |-> 0],
      Take(OneEntryBlock, Len(OneEntryBlock) - 1),
      OneEntryBlock \o <<0>>,
      <<4, 0, 0>> }

ChallengeConfigs ==
    { [DefaultConfig EXCEPT !.challenges = o, !.fix_challenge_overflow = f,
                            !.bigendian = b] :
        o \in SUBSET {"zero", "max", "bonus"}, f \in BOOLEAN, b \in BOOLEAN }

ChallengePlayers ==
    { [BasePlayer EXCEPT !.challenges = SaveBlock(e, d)] :
        e \in {"<", ">"}, d \in Logs }
    \cup { [BasePlayer EXCEPT !.challenges = b] : b \in BrokenBlocks }

InitChallenges == InitWith(ChallengeConfigs, ChallengePlayers)

SpecChallenges == InitChallenges /\ [][Next]_vars

\* The log before and after, decoded with the configured byte order.
Log0 == unwrap_challenges(config.endian, player0.challenges)
Log1 == unwrap_challenges(config.endian, player.challenges)

SameButTotal(a, b) ==
    /\ a.id = b.id
    /\ a.first_one = b.first_one
    /\ a.second_one = b.second_one
    /\ a.previous_value = b.previous_value

WMax(a, b) == IF WLess(a, b) THEN b ELSE a

\* total_value after the zero and max steps, from the catalog.
AfterZeroMax(opts, e) ==
    IF "max" \in opts THEN WAdd(e.previous_value, Wide(challenges[e.id].max))
    ELSE IF "zero" \in opts THEN e.previous_value
    ELSE e.total_value

ChallengesRan == Modified /\ Log0.status = "ok" /\ Log1.status = "ok"

(***************************************************************************)
(* C5: for every challenge entry whose id is in the catalog, the challenges *)
(* option 'zero' alone sets total_value to previous_value, and 'max' (alone *)
(* or together with 'zero') sets total_value to previous_value + catalog    *)
(* max; entries whose id is not in the catalog and every previous_value     *)
(* field are left unchanged.  With previous_value 1000 and catalog max      *)
(* 5000, 'max' yields total_value 6000.                                     *)
(***************************************************************************)
C5_ZeroMax ==
    ( /\ Modified
      /\ config.challenges \in {{"zero"}, {"max"}, {"zero", "max"}}
      /\ ~config.fix_challenge_overflow ) =>
        /\ Log0.status = "ok"
        /\ Log1.status = "ok"
        /\ Log1.unknown = Log0.unknown
        /\ Len(Log1.challenges) = Len(Log0.challenges)
        /\ \A i \in 1..Len(Log0.challenges) :
              LET a == Log0.challenges[i]
                  b == Log1.challenges[i]
              IN /\ SameButTotal(a, b)
                 /\ (a.id \notin {123, 124}) => b = a
                 /\ (a.id \in {123, 124} /\ config.challenges = {"zero"}) =>
                       b.total_value = a.previous_value
                 /\ (a.id \in {123, 124} /\ "max" \in config.challenges) =>
                       b.total_value = WAdd(a.previous_value, Wide(challenges[a.id].max))
                 /\ (a.id = 123 /\ a.previous_value = Wide(1000)
                        /\ "max" \in config.challenges) =>
                       b.total_value = Wide(6000)

C5_Witness ==
    /\ ChallengesRan
    /\ config.challenges = {"max"}
    /\ ~config.fix_challenge_overflow
    /\ Len(Log0.challenges) = 2
    /\ Log0.challenges[1] = Entry(123, Wide(500), Wide(1000))
    /\ Log1.challenges[1] = Entry(123, Wide(6000), Wide(1000))
    /\ Log0.challenges[2].id = 999
    /\ Log1.challenges[2] = Log0.challenges[2]

C5_WitnessZero ==
    /\ ChallengesRan
    /\ config.challenges = {"zero"}
    /\ \E i \in 1..Len(Log0.challenges) :
          /\ Log0.challenges[i] = Entry(124, Wide(2100000000), Wide(0))
          /\ Log1.challenges[i] = Entry(124, Wide(0), Wide(0))


HasBonus(e) == e.id \in {123, 124} /\ ~IsNone(challenges[e.id].bonus)
PlusBonus(e) == WAdd(e.previous_value, Wide(Val(challenges[e.id].bonus)))

(***************************************************************************)
(* C6 as claimed: with the challenges option 'bonus' requested, alone or    *)
(* combined with 'zero' and/or 'max', every recognized challenge that has a *)
(* bonus ends with total_value = max(t, previous_value + catalog bonus),    *)
(* where t is its total_value after the zero/max steps; a recognized        *)
(* challenge without a bonus is not affected by 'bonus'.                    *)
(***************************************************************************)
C6_Claimed ==
    ( /\ ChallengesRan
      /\ "bonus" \in config.challenges
      /\ ~config.fix_challenge_overflow ) =>
        \A i \in 1..Len(Log0.challenges) :
            LET a == Log0.challenges[i]
                b == Log1.challenges[i]
                t == AfterZeroMax(config.challenges, a)
            IN /\ HasBonus(a) => b.total_value = WMax(t, PlusBonus(a))
               /\ (a.id \in {123, 124} /\ ~HasBonus(a)) => b.total_value = t

(***************************************************************************)
(* C6 as amended: with 'bonus' requested alone, every recognized challenge  *)
(* that has a bonus ends with total_value = max(total_value,                *)
(* previous_value + catalog bonus); with 'bonus' combined with 'zero'       *)
(* and/or 'max' it ends with total_value = previous_value + catalog bonus   *)
(* exactly, also when the max step had left a larger value; a recognized    *)
(* challenge without a bonus is not affected by 'bonus' (it keeps its value *)
(* after the zero/max steps).                                               *)
(***************************************************************************)
C6_Bonus ==
    ( /\ ChallengesRan
      /\ "bonus" \in config.challenges
      /\ ~config.fix_challenge_overflow ) =>
        \A i \in 1..Len(Log0.challenges) :
            LET a == Log0.challenges[i]
                b == Log1.challenges[i]
            IN /\ SameButTotal(a, b)
               /\ (HasBonus(a) /\ config.challenges = {"bonus"}) =>
                     b.total_value = WMax(a.total_value, PlusBonus(a))
               /\ (HasBonus(a) /\ config.challenges # {"bonus"}) =>
                     b.total_value = PlusBonus(a)
               /\ (a.id \in {123, 124} /\ ~HasBonus(a)) =>
                     b.total_value = AfterZeroMax(config.challenges, a)

\* max and bonus together: 1000 + 2000, not 1000 + 5000.
C6_Witness ==
    /\ ChallengesRan
    /\ config.challenges = {"max", "bonus"}
    /\ ~config.fix_challenge_overflow
    /\ Len(Log0.challenges) = 2
    /\ Log0.challenges[1] = Entry(123, Wide(500), Wide(1000))
    /\ Log1.challenges[1] = Entry(123, Wide(3000), Wide(1000))
    /\ Log0.challenges[2] = Entry(124, Wide(1999999999), Wide(7))
    /\ Log1.challenges[2] = Entry(124, Wide(12352), Wide(7))

\* bonus alone keeps a total that is already above previous + bonus.
C6_WitnessAlone ==
    /\ ChallengesRan
    /\ config.challenges = {"bonus"}
    /\ Len(Log0.challenges) = 2
    /\ Log0.challenges[1] = Entry(123, Wide(4000), Wide(1000))
    /\ Log1.challenges[1] = Entry(123, Wide(4000), Wide(1000))
    /\ Log0.challenges[2] = Entry(123, Wide(500), Wide(1000))
    /\ Log1.challenges[2] = Entry(123, Wide(3000), Wide(1000))

(***************************************************************************)
(* C7: modify_save with fix_challenge_overflow set changes total_value to   *)
(* catalog max + 1 for exactly the recognized challenges whose total_value  *)
(* >= 2000000000, and leaves every other challenge entry (recognized with a *)
(* smaller total, or unrecognized) unchanged; total_value 2100000000 with   *)
(* catalog max 12345 becomes 12346.                                         *)
(***************************************************************************)
C7_FixOverflow ==
    ( /\ Modified
      /\ config.fix_challenge_overflow
      /\ config.challenges = {}
      /\ Log0.status = "ok" ) =>
        /\ Log1.status = "ok"
        /\ Log1.unknown = Log0.unknown
        /\ Len(Log1.challenges) = Len(Log0.challenges)
        /\ \A i \in 1..Len(Log0.challenges) :
              LET a == Log0.challenges[i]
                  b == Log1.challenges[i]
                  over == /\ a.id \in {123, 124}
                          /\ ~WLess(a.total_value, Wide(2000000000))
              IN /\ over => b = [a EXCEPT !.total_value = Wide(challenges[a.id].max + 1)]
                 /\ ~over => b = a
                 /\ a = Entry(124, Wide(2100000000), Wide(0)) =>
                       b.total_value = Wide(12346)

C7_Witness ==
    /\ ChallengesRan
    /\ config.fix_challenge_overflow
    /\ config.challenges = {}
    /\ Len(Log0.challenges) = 2
    /\ Log0.challenges[1] = Entry(124, Wide(2100000000), Wide(0))
    /\ Log1.challenges[1] = Entry(124, Wide(12346), Wide(0))
    /\ Log0.challenges[2] = Entry(999, Wide(2100000000), Wide(5))
    /\ Log1.challenges[2] = Log0.challenges[2]

C7_WitnessBoundary ==
    /\ ChallengesRan
    /\ config.fix_challenge_overflow
    /\ config.challenges = {}
    /\ Len(Log0.challenges) = 2
    /\ Log0.challenges[1] = Entry(123, Wide(2000000000), Wide(1000))
    /\ Log1.challenges[1] = Entry(123, Wide(5001), Wide(1000))
    /\ Log0.challenges[2] = Entry(124, Wide(1999999999), Wide(7))
    /\ Log1.challenges[2] = Log0.challenges[2]


\* The header fields of a block, read with byte order e.
BlockSize(e, b) == unpack_u32(e, SubSeq(b, 5, 8))
BlockCount(e, b) == unpack_u16(e, SubSeq(b, 9, 10))

SizeLaws(e, b) ==
    /\ Len(b) >= 10
    /\ BlockSize(e, b) = Wide((12 * BlockCount(e, b)) + 2)
    /\ Wide(Len(b)) = WAdd(BlockSize(e, b), Wide(8))

ChallengeMutation == config.challenges # {} \/ config.fix_challenge_overflow

(***************************************************************************)
(* C9: the challenge block produced by wrap_challenges after any sequence   *)
(* of challenge mutations satisfies size_in_bytes = 12 * count + 2 and      *)
(* block length = size_in_bytes + 8, with count equal to the number of      *)
(* entries decoded; unwrap_challenges raises an error for any input block   *)
(* that violates either relation.                                           *)
(***************************************************************************)
C9_SizeLaws ==
    /\ (Modified /\ ChallengeMutation) =>
          /\ SizeLaws(config.endian, player.challenges)
          /\ Log0.status = "ok"
          /\ BlockCount(config.endian, player.challenges) = Len(Log0.challenges)
          /\ Len(player.challenges) = 10 + (12 * Len(Log0.challenges))
    /\ ( /\ pc \in {"modified", "done"}
         /\ called > 0
         /\ ChallengeMutation
         /\ ~SizeLaws(config.endian, player0.challenges) ) =>
          /\ status \in {"BorderlandsError", "struct.error"}
          /\ player = player0

C9_Witness ==
    /\ Modified
    /\ called = 2
    /\ config.challenges = {"zero", "max", "bonus"}
    /\ config.fix_challenge_overflow
    /\ config.endian = ">"
    /\ Len(Log0.challenges) = 2
    /\ player.challenges # player0.challenges
    /\ Len(player.challenges) = 34
    /\ BlockSize(">", player.challenges) = Wide(26)
    /\ BlockCount(">", player.challenges) = 2

C9_WitnessRaises ==
    /\ pc = "modified"
    /\ config.challenges = {"max"}
    /\ player0.challenges = [OneEntryBlock EXCEPT ![9] = 2]
    /\ status = "BorderlandsError"


(***************************************************************************)
(* A run of the program with one option of the mutation table (or none, or  *)
(* fix_challenge_overflow next to another option).                          *)
(***************************************************************************)
RunConfigs ==
    { DefaultConfig,
      [DefaultConfig EXCEPT !.level = Some(72)],
      [DefaultConfig EXCEPT !.money = Some(5000)],
      [DefaultConfig EXCEPT !.eridium = Some(99)],
      [DefaultConfig EXCEPT !.moonstone = Some(99)],
      [DefaultConfig EXCEPT !.seraph = Some(7)],
      [DefaultConfig EXCEPT !.torgue = Some(8)],
      [DefaultConfig EXCEPT !.itemlevels = Some(0)],
      [DefaultConfig EXCEPT !.oplevel = Some(10)],
      [DefaultConfig EXCEPT !.backpack = Some(MaxArg)],
      [DefaultConfig EXCEPT !.bank = Some(IntArg(10))],
      [DefaultConfig EXCEPT !.gunslots = Some(4)],
      [DefaultConfig EXCEPT !.maxammo = Some(TRUE)],
      [DefaultConfig EXCEPT !.copy_nvhm_missions = TRUE],
      [DefaultConfig EXCEPT !.name = Some("Maya")],
      [DefaultConfig EXCEPT !.save_game_id = Some(3)],
      [DefaultConfig EXCEPT !.fix_challenge_overflow = TRUE],
      [DefaultConfig EXCEPT !.fix_challenge_overflow = TRUE, !.money = Some(5000)] }
    \cup { [DefaultConfig EXCEPT !.unlock = {u}] :
             u \in {"slaughterdome", "tvhm", "uvhm", "challenges", "ammo"} }
    \cup { [DefaultConfig EXCEPT !.challenges = {o}] : o \in {"zero", "max", "bonus"} }

RunPlayers ==
    { BasePlayer,
      [BasePlayer EXCEPT !.playthrough = 0, !.items = Some(<<>>), !.sdus = <<1, 2, 3, 4, 5, 6, 7, 0, 0>>],
      [BasePlayer EXCEPT !.challenges =
          SaveBlock("<", [unknown |-> Wide(4),
                          challenges |-> <<Entry(124, Wide(2100000000), Wide(0))>>])],
      [BasePlayer EXCEPT !.challenges =
          SaveBlock("<", [unknown |-> Wide(4),
                          challenges |-> <<Entry(123, Wide(500), Wide(1000))>>])] }

Init == InitWith(RunConfigs, RunPlayers)

Spec == Init /\ [][Next]_vars

\* The options of the mutation table, as given on the command line.
OptionRequested(c) ==
    \/ finish_changes(c)
    \/ c.fix_challenge_overflow

(***************************************************************************)
(* C8 as claimed: every mutation option the user requests is applied by a   *)
(* run: for each option of the mutation table, including                    *)
(* fix_challenge_overflow given as the only option, Config.finish marks the *)
(* configuration as having changes and run() therefore calls modify_save,   *)
(* so the written save reflects the option (an overflowed total of          *)
(* 2100000000 with catalog max 12345 is written as 12346).                  *)
(***************************************************************************)
C8_Claimed ==
    (pc = "done" /\ OptionRequested(config0)) =>
        /\ config.changes
        /\ called = 1
        /\ ( /\ config0.fix_challenge_overflow
             /\ Log0.status = "ok"
             /\ Len(Log0.challenges) = 1
             /\ Log0.challenges[1] = Entry(124, Wide(2100000000), Wide(0)) ) =>
                Log1.challenges[1] = Entry(124, Wide(12346), Wide(0))

\* The run that shows it: --fix-challenge-overflow alone ends with the record
\* as it was read.
C8_Witness ==
    /\ pc = "done"
    /\ config0 = [DefaultConfig EXCEPT !.fix_challenge_overflow = TRUE]
    /\ ~config.changes
    /\ called = 0
    /\ player = player0
    /\ Log0.challenges = <<Entry(124, Wide(2100000000), Wide(0))>>


(***************************************************************************)
(* The save container: wrap_player_data and unwrap_player_data.             *)
(*                                                                          *)
(* hashlib.sha1, binascii.crc32 and the datautil codecs (lzo1x, huffman,    *)
(* bitstream) are not part of the translated sources.  They are modelled    *)
(* as deterministic functions of the bytes: a 20-byte digest, a 32-bit      *)
(* checksum, and two invertible codecs that are not the identity and that   *)
(* reject input they could not have produced.                               *)
(***************************************************************************)
RECURSIVE ByteSum(_)
ByteSum(b) == IF Len(b) = 0 THEN 1 ELSE (Head(b) + (3 * ByteSum(Tail(b)))) % 65521

\* hashlib.sha1(b).digest(): twenty bytes.
sha1(b) == [i \in 1..20 |-> (ByteSum(b) + (i * (Len(b) + 1))) % 256]

\* binascii.crc32(b) & 0xFFFFFFFF.
crc32(b) == <<ByteSum(b), ((Len(b) * 257) + ByteSum(Reverse(b))) % 65536>>

\* lzo1x_1_compress: a first byte 0xF0, the body, the end-of-stream marker.
lzo1x_1_compress(b) == <<240>> \o [i \in 1..Len(b) |-> (b[i] + 13) % 256] \o <<17, 0, 0>>

lzo1x_decompress(b) ==
    IF Len(b) < 4 \/ b[1] # 240 \/ SubSeq(b, Len(b) - 2, Len(b)) # <<17, 0, 0>>
    THEN [status |-> "LzoError", data |-> <<>>]
    ELSE [status |-> "ok",
          data |-> [i \in 1..(Len(b) - 4) |-> (b[i + 1] + 243) % 256]]

\* make_huffman_tree, write_huffman_tree and huffman_compress into one
\* bitstream: the tree, then the coded bytes.
huffman_compress(pl) ==
    <<Cardinality({pl[i] : i \in 1..Len(pl)})>>
        \o [i \in 1..Len(pl) |-> 255 - pl[i]]

\* read_huffman_tree and huffman_decompress(tree, bitstream, size).
huffman_decompress(b, size) ==
    IF Len(b) < 1 \/ WLess(Wide(Len(b) - 1), size)
    THEN [status |-> "IndexError", player |-> <<>>]
    ELSE [status |-> "ok",
          player |-> [i \in 1..((size[1] * 65536) + size[2]) |-> 255 - b[i + 1]]]

\* lines 604-607: data[:4] == "CON " compares bytes with a str, which is
\* never equal.
is_con(d) == FALSE

Failed(kind, message, stages) ==
    [status |-> kind, message |-> message, player |-> <<>>, stages |-> stages]

\* lines 638-650.
wrap_player_data_mutant(endian, pl) ==
    LET d == huffman_compress(pl) \o <<0, 0, 0, 0>>
        header == pack_u32(">", Wide(Len(d) + 15)) \o <<87, 83, 71>>
                    \o pack_u32(endian, Wide(2)) \o pack_u32(endian, crc32(pl))
                    \o pack_u32(endian, Wide(Len(pl)))
        z == lzo1x_1_compress(header \o d)
    IN sha1(z) \o Tail(z)

wrap_player_data_version_mutant(endian, pl) ==
    LET d == huffman_compress(pl) \o <<0, 0, 0, 0>>
        header == pack_u32(">", Wide(Len(d) + 15)) \o <<87, 83, 71>>
                    \o pack_u32(">", Wide(2)) \o pack_u32(endian, crc32(pl))
                    \o pack_u32(endian, Wide(Len(pl)))
        z == Tail(lzo1x_1_compress(header \o d))
    IN sha1(z) \o z

wrap_player_data(endian, pl) ==
    LET d == huffman_compress(pl) \o <<0, 0, 0, 0>>
        header == pack_u32(">", Wide(Len(d) + 15)) \o <<87, 83, 71>>
                    \o pack_u32(endian, Wide(2)) \o pack_u32(endian, crc32(pl))
                    \o pack_u32(endian, Wide(Len(pl)))
        z == Tail(lzo1x_1_compress(header \o d))
    IN sha1(z) \o z

\* lines 613-634: what follows the digest check.  stages lists the steps
\* reached, in order.
unwrap_body(d) ==
    LET z == lzo1x_decompress(<<240>> \o Drop(d, 20))
        lzo == <<"sha1", "lzo1x_decompress">>
    IN IF z.status # "ok" THEN Failed(z.status, "", lzo)
       ELSE IF Len(z.data) < 11 THEN Failed("struct.error", "", lzo)
       ELSE LET version == unpack_u32(">", SubSeq(z.data, 8, 11)) IN
            IF version # Wide(2) /\ version # <<512, 0>>
            THEN Failed("BorderlandsError", "Unknown save version", lzo)
            ELSE IF Len(z.data) < 19 THEN Failed("struct.error", "", lzo)
            ELSE LET e == IF version = Wide(2) THEN ">" ELSE "<"
                     crc == unpack_u32(e, SubSeq(z.data, 12, 15))
                     size == unpack_u32(e, SubSeq(z.data, 16, 19))
                     h == huffman_decompress(Drop(z.data, 19), size)
                     huff == Append(lzo, "huffman_decompress")
                 IN IF h.status # "ok" THEN Failed(h.status, "", huff)
                    ELSE IF crc32(h.player) # crc
                    THEN Failed("BorderlandsError", "CRC check failed", Append(huff, "crc32"))
                    ELSE [status |-> "ok", message |-> "", player |-> h.player,
                          stages |-> Append(huff, "crc32")]

\* lines 596-636.
unwrap_player_data_mutant(d) ==
    IF is_con(d) THEN Failed("BorderlandsError", "extract the SaveGame.sav file first", <<>>)
    ELSE unwrap_body(d)

unwrap_player_data(d) ==
    IF is_con(d) THEN Failed("BorderlandsError", "extract the SaveGame.sav file first", <<>>)
    ELSE IF Take(d, 20) # sha1(Drop(d, 20))
    THEN Failed("BorderlandsError", "Invalid save file", <<"sha1">>)
    ELSE unwrap_body(d)


(***************************************************************************)
(* The container on its own: a file is read (data), unwrap_player_data      *)
(* decodes it, wrap_player_data encodes a payload.                          *)
(***************************************************************************)
Payloads == SeqsUpTo({0, 65, 255}, MaxPayload)

\* Files: well-formed containers of either byte order; the same with a
\* digest byte changed, a body byte changed, the last byte missing; a
\* correct digest over a body that is not a compressed stream; files shorter
\* than a digest; and a file starting with "CON ".
GoodFiles == {wrap_player_data(e, p) : e \in {"<", ">"}, p \in Payloads}

BadFiles ==
    { [f EXCEPT ![1] = (f[1] + 1) % 256] : f \in GoodFiles }
    \cup { [f EXCEPT ![25] = (f[25] + 1) % 256] : f \in GoodFiles }
    \cup { Take(f, Len(f) - 1) : f \in GoodFiles }
    \cup { sha1(b) \o b : b \in {<<>>, <<1, 2, 3>>, <<67, 79, 78, 32, 17, 0, 0>>} }
    \cup { <<>>, <<1, 2, 3>>, <<67, 79, 78, 32, 0, 0, 0, 0>> }

\* Containers laid out like the program's own, with a correct digest and
\* checksum, whose 3-byte magic is not "WSG".
SaveFile(e, magic, p) ==
    LET d == huffman_compress(p) \o <<0, 0, 0, 0>>
        header == pack_u32(">", Wide(Len(d) + 15)) \o magic
                    \o pack_u32(e, Wide(2)) \o pack_u32(e, crc32(p))
                    \o pack_u32(e, Wide(Len(p)))
        z == Tail(lzo1x_1_compress(header \o d))
    IN sha1(z) \o z

ForeignFiles ==
    { SaveFile(e, m, p) : e \in {"<", ">"}, m \in {<<88, 89, 90>>, <<0, 0, 0>>},
                          p \in Payloads }

InitContainer ==
    /\ config0 \in {DefaultConfig, [DefaultConfig EXCEPT !.bigendian = TRUE]}
    /\ config = config0
    /\ player0 = BasePlayer
    /\ player = player0
    /\ pc = "parsed"
    /\ status = "ok"
    /\ called = 0
    /\ data \in GoodFiles \cup BadFiles \cup ForeignFiles
    /\ result = [status |-> "none"]

\* unwrap_player_data on the file's bytes.
Unwrap ==
    /\ pc = "finished"
    /\ called < MaxCalls
    /\ result' = unwrap_player_data(data)
    /\ called' = called + 1
    /\ UNCHANGED <<config0, config, player0, player, pc, status, data>>

\* wrap_player_data on a payload; result remembers the payload.
Wrap ==
    /\ pc = "finished"
    /\ called < MaxCalls
    /\ \E p \in Payloads :
         /\ data' = wrap_player_data(config.endian, p)
         /\ result' = [status |-> "wrapped", message |-> "", player |-> p, stages |-> <<>>]
    /\ called' = called + 1
    /\ UNCHANGED <<config0, config, player0, player, pc, status>>

NextContainer == Finish \/ Unwrap \/ Wrap

SpecContainer == InitContainer /\ [][NextContainer]_vars

DigestOk(d) == Len(d) >= 20 /\ SubSeq(d, 1, 20) = sha1(SubSeq(d, 21, Len(d)))

(***************************************************************************)
(* C10: every byte string returned by wrap_player_data has its first 20     *)
(* bytes equal to the SHA-1 of the remaining bytes, and unwrap_player_data  *)
(* raises an error for every input whose first 20 bytes differ from the     *)
(* SHA-1 of the remainder, before any decompression is attempted.           *)
(***************************************************************************)
C10_Digest ==
    /\ result.status = "wrapped" => DigestOk(data)
    /\ (result.status \notin {"none", "wrapped"} /\ ~DigestOk(data)) =>
          /\ result.status = "BorderlandsError"
          /\ result.message = "Invalid save file"
          /\ result.stages = <<"sha1">>

C10_Witness ==
    /\ result.status = "wrapped"
    /\ result.player = <<65, 255>>
    /\ Len(data) > 20
    /\ DigestOk(data)

C10_WitnessRaises ==
    /\ result.status = "BorderlandsError"
    /\ result.stages = <<"sha1">>
    /\ Len(data) > 20
    /\ ~DigestOk(data)
    /\ DigestOk([data EXCEPT ![25] = (data[25] + 255) % 256])

C10_WitnessDecodes ==
    /\ result.status = "ok"
    /\ result.player = <<65, 255>>
    /\ result.stages = <<"sha1", "lzo1x_decompress", "huffman_decompress", "crc32">>


(***************************************************************************)
(* The item codec: wrap_item and unwrap_item (lines 400-413) with           *)
(* rotate_data_left, rotate_data_right and xor_data of datautil/common.py.  *)
(***************************************************************************)
item_struct_version == 7

\* x & 0xFFFFFFFF for a signed 32-bit x, as a wide number.
U32Of(x) == <<(x \div 65536) % 65536, x % 65536>>

\* struct.pack('>i', key) and struct.unpack('>i', b).
pack_i32(key) == pack_u32(">", U32Of(key))
unpack_i32(b) ==
    ((IF b[1] >= 128 THEN b[1] - 256 ELSE b[1]) * 16777216)
        + (b[2] * 65536) + (b[3] * 256) + b[4]

\* a ^ b on n-bit numbers.
RECURSIVE XorBits(_, _, _)
XorBits(a, b, n) ==
    IF n = 0 THEN 0
    ELSE ((a + b) % 2) + (2 * XorBits(a \div 2, b \div 2, n - 1))

\* (x + y) % 4294967291 for wide x, y below 4294967291.
XorModulus == <<65535, 65531>>
AddMod(x, y) ==
    LET t == WAdd(x, y) IN
    IF WLess(t, XorModulus) THEN t
    ELSE IF t[2] >= 65531 THEN <<t[1] - 65535, t[2] - 65531>>
    ELSE <<t[1] - 65536, (t[2] + 65536) - 65531>>

\* Reduction of a wide number below 2^32 modulo 4294967291.
ModKey(x) == IF WLess(x, XorModulus) THEN x ELSE <<0, x[2] - 65531>>

\* x * y as a wide number, for x, y below 2^16.
Mul16(x, y) ==
    LET h == (x \div 256) * y
    IN WAdd(<<h \div 256, (h % 256) * 256>>, Wide((x % 256) * y))

\* (x * 2^16) % 4294967291 and (x * 2^32) % 4294967291 for wide x below
\* 4294967291, with 2^32 = 5 modulo 4294967291.
Shift16Mod(x) == AddMod(Wide(5 * x[1]), <<x[2], 0>>)
Shift32Mod(x) == AddMod(AddMod(AddMod(x, x), AddMod(x, x)), x)

\* common.py line 73: (key * 279470273) % 4294967291, with
\* 279470273 = 4264 * 2^16 + 24769.
next_key(key) ==
    LET hh == ModKey(Mul16(key[1], 4264))
        hl == ModKey(Mul16(key[1], 24769))
        lh == ModKey(Mul16(key[2], 4264))
        ll == ModKey(Mul16(key[2], 24769))
    IN AddMod(AddMod(Shift32Mod(hh), Shift16Mod(AddMod(hl, lh))), ll)

RECURSIVE xor_from(_, _, _)
xor_from(d, key, i) ==
    IF i > Len(d) THEN <<>>
    ELSE LET k == next_key(key) IN
         <<XorBits(d[i], k[2] % 256, 8)>> \o xor_from(d, k, i + 1)

xor_data(d, key) == xor_from(d, U32Of(key), 1)

\* common.py lines 59-66.  steps % len(data) raises ZeroDivisionError on
\* empty data; every caller hands at least the two checksum bytes.
rotate_data_right(d, steps) ==
    LET n == steps % Len(d) IN
    IF n = 0 THEN d ELSE SubSeq(d, Len(d) - n + 1, Len(d)) \o SubSeq(d, 1, Len(d) - n)

rotate_data_left(d, steps) ==
    LET n == steps % Len(d) IN
    SubSeq(d, n + 1, Len(d)) \o SubSeq(d, 1, n)

\* lines 403-405: the two checksum bytes over header, 0xFFFF, item, padding.
item_checksum(header, item) ==
    LET h == crc32(header \o <<255, 255>> \o item \o [i \in 1..(33 - Len(item)) |-> 255])
    IN pack_u16(">", XorBits(h[1], h[2], 16))

\* lines 400-407.
wrap_item(is_weapon, values, key) ==
    LET item == pack_item_values(is_weapon, values)
        header == <<(is_weapon * 128) + item_struct_version>> \o pack_i32(key)
        body == xor_data(rotate_data_left(item_checksum(header, item) \o item, key % 32),
                         key \div 32)
    IN header \o body

\* lines 409-413.
unwrap_item(d) ==
    IF Len(d) < 5 THEN [status |-> "struct.error"]
    ELSE IF Len(d) = 5 THEN [status |-> "ZeroDivisionError"]
    ELSE LET key == unpack_i32(SubSeq(d, 2, 5))
             is_weapon == d[1] \div 128
             raw == rotate_data_right(xor_data(Drop(d, 5), key \div 32), key % 32)
         IN IF Len(raw) < 2
            THEN [status |-> "ok", is_weapon |-> is_weapon,
                  values |-> unpack_item_values(is_weapon, <<>>), key |-> key]
            ELSE [status |-> "ok", is_weapon |-> is_weapon,
                  values |-> unpack_item_values(is_weapon, Drop(raw, 2)), key |-> key]


(***************************************************************************)
(* The item codec on its own: wrap_item applied to (is_weapon, values,      *)
(* key), unwrap_item applied to the bytes.                                  *)
(***************************************************************************)
\* Field lists: the first n fields hold a value within the field's width
\* (small, the largest the width allows, or zero), the others are None.
ItemValues(w, n, profile) ==
    [i \in 1..ItemFields |->
        IF i > n THEN NoField
        ELSE IF profile = "max" THEN Pow2(item_sizes[w + 1][i]) - 1
        ELSE IF profile = "zero" THEN 0
        ELSE i + 2]

ItemKeys == {0, 1, 37, -1, 1234567, 2147483647, -2147483647}

ItemInputs ==
    { [is_weapon |-> w, values |-> ItemValues(w, n, pr), key |-> k] :
        w \in {0, 1}, n \in 1..ItemFields, pr \in {"small", "max", "zero"},
        k \in ItemKeys }

\* The two checksum bytes stored in an item, and the item with the first of
\* them changed.
ItemRaw(d) ==
    LET key == unpack_i32(SubSeq(d, 2, 5)) IN
    rotate_data_right(xor_data(Drop(d, 5), key \div 32), key % 32)

StoredChecksum(d) == SubSeq(ItemRaw(d), 1, 2)
ComputedChecksum(d) == item_checksum(SubSeq(d, 1, 5), Drop(ItemRaw(d), 2))

AlteredItem(d) ==
    LET key == unpack_i32(SubSeq(d, 2, 5))
        raw == ItemRaw(d)
    IN SubSeq(d, 1, 5)
         \o xor_data(rotate_data_left([raw EXCEPT ![1] = (raw[1] + 1) % 256], key % 32),
                     key \div 32)

NoOutput == [status |-> "none"]

\* Either the triple is about to be wrapped (data empty), or the bytes are an
\* item found in a save whose checksum bytes do not match.
InitItem ==
    /\ config0 = DefaultConfig
    /\ config = config0
    /\ player0 = BasePlayer
    /\ player = player0
    /\ pc = "item"
    /\ status = "ok"
    /\ called = 0
    /\ \E in \in ItemInputs :
         \/ /\ data = <<>>
            /\ result = [status |-> "input", in |-> in, out |-> NoOutput]
         \/ /\ in.key \in {37, -1}
            /\ in.values[7] # NoField
            /\ data = AlteredItem(wrap_item(in.is_weapon, in.values, in.key))
            /\ result = [status |-> "stored", in |-> in, out |-> NoOutput]

WrapItem ==
    /\ pc = "item"
    /\ result.status = "input"
    /\ data' = wrap_item(result.in.is_weapon, result.in.values, result.in.key)
    /\ result' = [result EXCEPT !.status = "wrapped"]
    /\ UNCHANGED <<config0, config, player0, player, pc, status, called>>

UnwrapItem ==
    /\ pc = "item"
    /\ result.status \in {"wrapped", "stored"}
    /\ result.out = NoOutput
    /\ result' = [result EXCEPT !.out = unwrap_item(data)]
    /\ UNCHANGED <<config0, config, player0, player, pc, status, called, data>>

NextItem == WrapItem \/ UnwrapItem

SpecItem == InitItem /\ [][NextItem]_vars

(***************************************************************************)
(* C13 as claimed: for every is_weapon in {0,1}, every signed 32-bit key,   *)
(* and every field list made of a non-empty prefix of values each within    *)
(* its declared bit width followed by None for the remaining fields,        *)
(* unwrap_item(wrap_item(is_weapon, fields, key)) returns exactly           *)
(* (is_weapon, fields, key).                                                *)
(***************************************************************************)
C13_Claimed ==
    (result.status = "wrapped" /\ result.out # NoOutput) =>
        /\ result.out.status = "ok"
        /\ result.out.is_weapon = result.in.is_weapon
        /\ result.out.values = result.in.values
        /\ result.out.key = result.in.key

\* A two-field item: the seven padding bits of the last byte come back as
\* the fifth field.
C13_Witness ==
    /\ result.status = "wrapped"
    /\ result.in.is_weapon = 0
    /\ result.in.key = 37
    /\ result.in.values = ItemValues(0, 2, "small")
    /\ result.out # NoOutput
    /\ result.out.status = "ok"
    /\ result.out.key = 37
    /\ result.out.values = [ItemValues(0, 2, "small") EXCEPT ![5] = 127]

(***************************************************************************)
(* C14 as claimed: unwrap_item raises an error whenever the CRC-16 stored   *)
(* in the de-obfuscated item body differs from the CRC-16 recomputed over   *)
(* header, 0xFFFF, packed bits and 0xFF padding; an item whose checksum     *)
(* bytes were altered is never returned as decoded fields.                  *)
(***************************************************************************)
C14_Claimed ==
    (result.out # NoOutput /\ StoredChecksum(data) # ComputedChecksum(data)) =>
        result.out.status # "ok"

\* An item with altered checksum bytes is decoded like the original.
C14_Witness ==
    /\ result.status = "stored"
    /\ result.out # NoOutput
    /\ StoredChecksum(data) # ComputedChecksum(data)
    /\ result.out.status = "ok"
    /\ result.out.values = result.in.values
    /\ result.in.values[17] # NoField


\* unwrap_player_data has been applied to data.
Unwrapped == result.status \in {"ok", "BorderlandsError", "LzoError", "struct.error", "IndexError"}

(***************************************************************************)
(* C11 as claimed: unwrap_player_data rejects any input whose first four    *)
(* bytes are ASCII 'CON ' with the host-wrapper diagnostic (the message     *)
(* telling the user to extract SaveGame.sav first), and this check fires    *)
(* before the digest check, so such input is never reported as the generic  *)
(* 'Invalid save file' error.                                               *)
(***************************************************************************)
C11_Claimed ==
    (Unwrapped /\ Take(data, 4) = <<67, 79, 78, 32>>) =>
        /\ result.status = "BorderlandsError"
        /\ result.message = "extract the SaveGame.sav file first"
        /\ result.stages = <<>>

\* A file starting with "CON " is reported as an invalid save file.
C11_Witness ==
    /\ Unwrapped
    /\ data = <<67, 79, 78, 32, 0, 0, 0, 0>>
    /\ result.status = "BorderlandsError"
    /\ result.message = "Invalid save file"
    /\ result.stages = <<"sha1">>

\* The decompressed body of a container, its magic and its version field.
FileBody(d) == lzo1x_decompress(<<240>> \o Drop(d, 20)).data
FileMagic(d) == SubSeq(FileBody(d), 5, 7)
FileVersion(d) == unpack_u32(">", SubSeq(FileBody(d), 8, 11))

(***************************************************************************)
(* C12 as claimed: unwrap_player_data raises an error for every container   *)
(* whose digest is valid and whose version is 2 or 0x02000000 but whose     *)
(* 3-byte magic is not ASCII 'WSG'; it never returns a payload for a        *)
(* container with a bad magic.                                              *)
(***************************************************************************)
C12_Claimed ==
    ( /\ Unwrapped
      /\ DigestOk(data)
      /\ Len(FileBody(data)) >= 11
      /\ FileVersion(data) \in {<<0, 2>>, <<512, 0>>}
      /\ FileMagic(data) # <<87, 83, 71>> ) =>
        result.status # "ok"

\* A container with magic "XYZ" is decoded.
C12_Witness ==
    /\ Unwrapped
    /\ DigestOk(data)
    /\ Len(FileBody(data)) >= 11
    /\ FileVersion(data) = <<0, 2>>
    /\ FileMagic(data) = <<88, 89, 90>>
    /\ result.status = "ok"
    /\ result.player = <<65, 255>>


(***************************************************************************)
(* A save file and its challenge log: the container is written in one byte  *)
(* order (its version field reads 2 for big-endian, 0x02000000 for          *)
(* little-endian) and the challenge log inside it has the same order.       *)
(***************************************************************************)
InitEndian ==
    /\ config0 \in ChallengeConfigs
    /\ config = config0
    /\ \E e \in {"<", ">"} :
         /\ data = wrap_player_data(e, <<65>>)
         /\ player0 \in { [BasePlayer EXCEPT !.challenges = SaveBlock(e, d)] : d \in Logs }
    /\ player = player0
    /\ pc = "parsed"
    /\ status = "ok"
    /\ called = 0
    /\ result = [status |-> "none"]

SpecEndian == InitEndian /\ [][Next]_vars

VersionOrder(d) == IF FileVersion(d) = <<0, 2>> THEN ">" ELSE "<"

(***************************************************************************)
(* C15 as claimed: the byte order used by unwrap_challenges and             *)
(* wrap_challenges for a save is the byte order selected by that save's     *)
(* container version field (2 => big-endian, 0x02000000 => little-endian),  *)
(* for every combination of input save and command-line flags.              *)
(***************************************************************************)
C15_Claimed ==
    (pc \in {"modified", "done"} /\ called > 0 /\ ChallengeMutation) =>
        config.endian = VersionOrder(data)

\* A big-endian save without --bigendian: the log is read little-endian and
\* rejected.
C15_Witness ==
    /\ pc = "done"
    /\ called = 1
    /\ FileVersion(data) = <<0, 2>>
    /\ ~config0.bigendian
    /\ config.challenges = {"max"}
    /\ config.endian = "<"
    /\ player0.challenges = SaveBlock(">", [unknown |-> Wide(4),
                               challenges |-> <<Entry(123, Wide(500), Wide(1000))>>])
    /\ status = "BorderlandsError"
    /\ player = player0


(***************************************************************************)
(* Item levels: the bank (tag 41), inventory (tag 53) and weapon (tag 54)   *)
(* containers.                                                              *)
(***************************************************************************)
LevelItem(w, level) ==
    [ is_weapon |-> w,
      values |-> [i \in 1..ItemFields |-> IF i \in {5, 6} THEN level ELSE i + 2],
      key |-> 77, f2 |-> Some(<<0, 0, 0, 1>>), f3 |-> Some(0), f4 |-> Some(1) ]

LevelConfigs ==
    { [DefaultConfig EXCEPT !.itemlevels = Some(n), !.forceitemlevels = f, !.level = l] :
        n \in {0, 25}, f \in BOOLEAN, l \in {None} }

LevelPlayers ==
    { [BasePlayer EXCEPT !.items = Some(i), !.weapons = Some(w), !.bank_items = Some(b)] :
        i \in SeqsUpTo({LevelItem(0, 30), LevelItem(0, 1)}, MaxItems),
        w \in {<<>>, <<LevelItem(1, 12)>>, <<LevelItem(1, 1)>>},
        b \in {<<>>, <<LevelItem(0, 30)>>} }

InitItemLevels == InitWith(LevelConfigs, LevelPlayers)

SpecItemLevels == InitItemLevels /\ [][Next]_vars

TargetLevel == IF Val(config.itemlevels) > 0 THEN Val(config.itemlevels) ELSE player.level

\* Eligible as the code has it: forced, or above level 1.
Eligible(e) == config.forceitemlevels \/ e.values[5] > 1

LevelsSet(before, after) ==
    /\ Len(after) = Len(before)
    /\ \A i \in 1..Len(before) :
          Eligible(before[i]) =>
              (after[i].values[5] = TargetLevel /\ after[i].values[6] = TargetLevel)

(***************************************************************************)
(* C16 as claimed: with itemlevels = N requested, every eligible item in    *)
(* the bank container (tag 41), the inventory container (tag 53) and the    *)
(* weapon container (tag 54) ends with both level fields equal to N when    *)
(* N > 0, or to the character level when N = 0.                             *)
(***************************************************************************)
C16_Claimed ==
    (Modified /\ ~IsNone(config.itemlevels)) =>
        /\ LevelsSet(Val(player0.bank_items), Val(player.bank_items))
        /\ LevelsSet(Val(player0.items), Val(player.items))
        /\ LevelsSet(Val(player0.weapons), Val(player.weapons))

\* The inventory and the weapons are at level 25, the bank item still at 30.
C16_Witness ==
    /\ Modified
    /\ config.itemlevels = Some(25)
    /\ ~config.forceitemlevels
    /\ player0.items = Some(<<LevelItem(0, 30), LevelItem(0, 1)>>)
    /\ player.items = Some(<<LevelItem(0, 25), LevelItem(0, 1)>>)
    /\ player.weapons = Some(<<LevelItem(1, 25)>>)
    /\ player0.bank_items = Some(<<LevelItem(0, 30)>>)
    /\ player.bank_items = player0.bank_items


(***************************************************************************)
(* Currency: the packed array of tag 6.  bl2.py offers --money, --eridium,  *)
(* --seraph and --torgue; moonstone belongs to the other game's parser, so  *)
(* no configuration carries both eridium and moonstone.                     *)
(***************************************************************************)
CurrencySettings ==
    { [DefaultConfig EXCEPT !.money = m, !.eridium = e, !.moonstone = o,
                            !.seraph = s, !.torgue = t] :
        m \in {None, Some(0), Some(5555)}, e \in {None, Some(77)},
        o \in {None, Some(88)}, s \in {None, Some(99)}, t \in {None, Some(11)} }

CurrencyConfigs ==
    { c \in CurrencySettings : IsNone(c.eridium) \/ IsNone(c.moonstone) }

\* Arrays of five and six values, and one too short for index 2 and 4.
CurrencyPlayers ==
    { [BasePlayer EXCEPT !.currency = a] :
        a \in { <<1000, 10, 0, 0, 0>>, <<1, 2, 3, 4, 5, 6>>, <<100, 5>> } }

InitCurrency == InitWith(CurrencyConfigs, CurrencyPlayers)

SpecCurrency == InitCurrency /\ [][Next]_vars

\* The option that writes Python index i, if one was given.
CurrencyOption(i) ==
    CASE i = 0 -> config.money
      [] i = 1 -> IF IsNone(config.moonstone) THEN config.eridium ELSE config.moonstone
      [] i = 2 -> config.seraph
      [] i = 4 -> config.torgue
      [] OTHER -> None

(***************************************************************************)
(* C17: after modify_save, the currency array has the length it had, each   *)
(* index named by a requested option (money 0, eridium 1, moonstone 1,      *)
(* seraph 2, torgue 4) holds the requested value, and every other index     *)
(* holds the value it had.                                                  *)
(***************************************************************************)
C17_CurrencyFrame ==
    Modified =>
        /\ Len(player.currency) = Len(player0.currency)
        /\ \A i \in 0..(Len(player0.currency) - 1) :
              player.currency[i + 1] =
                  IF IsNone(CurrencyOption(i)) THEN player0.currency[i + 1]
                  ELSE Val(CurrencyOption(i))

\* --money 5555 --eridium 77 --torgue 11 on a six-value array.
C17_Witness ==
    /\ Modified
    /\ config.money = Some(5555)
    /\ config.eridium = Some(77)
    /\ IsNone(config.seraph)
    /\ config.torgue = Some(11)
    /\ player0.currency = <<1, 2, 3, 4, 5, 6>>
    /\ player.currency = <<5555, 77, 3, 4, 11, 6>>


(***************************************************************************)
(* Ammo pools: the resource records of tag 11 and the SDU array of tag 36.  *)
(***************************************************************************)
MaxResources == 2

AmmoRecord(t, level, amount) ==
    [ resource |-> ammo_resources[t][1], pool |-> ammo_resources[t][2],
      level |-> level, amount |-> wrap_float(amount) ]

\* Records of two ammo types, of the laser pool (no SDU of this game) and of
\* a resource that is not in the lookup.
ResourceSamples ==
    { AmmoRecord("grenade", 0, 2), AmmoRecord("sniper", 3, 84),
      AmmoRecord("laser", 1, 100),
      [ resource |-> "D_Resources.Health", pool |-> "D_Resourcepools.HealthPool",
        level |-> 0, amount |-> wrap_float(50) ] }

AmmoConfigs ==
    { [DefaultConfig EXCEPT !.maxammo = m, !.unlock = u] :
        m \in {None, Some(TRUE)}, u \in {{}, {"ammo"}} }

\* SDU arrays below, at and above the top of the tables, one that ends
\* before the rifle slot and one that ends before the grenade slot.
AmmoPlayers ==
    { [BasePlayer EXCEPT !.sdus = s, !.resources = r] :
        s \in { <<0, 0, 0, 0, 0, 0, 0, 0, 0>>, <<1, 2, 3, 7, 5, 6, 0, 8, 9>>,
                <<0, 0, 2, 1, 4>>, <<3, 1>> },
        r \in {None} \cup { Some(l) : l \in SeqsUpTo(ResourceSamples, MaxResources) } }

InitAmmo == InitWith(AmmoConfigs, AmmoPlayers)

SpecAmmo == InitAmmo /\ [][Next]_vars

\* The records of one ammo type in a resource list.
RecordsOf(l, t) == { i \in 1..Len(l) : l[i].resource = ammo_resources[t][1] }

\* The ammo types that are in the SDU array and in the ammo table.
AmmoTypes(s) ==
    { t \in DOMAIN black_market_ammo :
        \E i \in 1..Len(s) : i <= Len(black_market_keys) /\ black_market_keys[i] = t }

SduLevel(s, t) ==
    s[CHOOSE i \in 1..Len(black_market_keys) : black_market_keys[i] = t]

(***************************************************************************)
(* C18 as claimed: after modify_save with maxammo (on a record that has the *)
(* resource list), for every ammo type that is in the black-market SDU      *)
(* array and in the ammo table, the resource list holds a record of that    *)
(* type with level = min(sdu_level, len(table) - 1) and amount =            *)
(* table[level]; a record is synthesized when none existed, and the type    *)
(* has as many records as before when it had some.                          *)
(***************************************************************************)
C18_Claimed ==
    ( /\ pc \in {"modified", "done"}
      /\ called > 0
      /\ ~IsNone(config.maxammo)
      /\ ~IsNone(player0.resources) ) =>
        /\ status = "ok"
        /\ LET before == Val(player0.resources)
               after == Val(player.resources)
           IN \A t \in AmmoTypes(player.sdus) :
                LET table == black_market_ammo[t]
                    level == Min(SduLevel(player.sdus, t), Len(table) - 1)
                IN /\ RecordsOf(after, t) # {}
                   /\ \A i \in RecordsOf(after, t) :
                         /\ after[i].level = level
                         /\ after[i].amount = wrap_float(table[level + 1])
                   /\ Cardinality(RecordsOf(after, t)) =
                         Max(1, Cardinality(RecordsOf(before, t)))

\* --maxammo on SDU levels up to 9 and a resource list with the sniper
\* record: the call ends in NameError and the list is as it was.
C18_Witness ==
    /\ pc = "modified"
    /\ called = 1
    /\ config.maxammo = Some(TRUE)
    /\ config.unlock = {}
    /\ player0.sdus = <<1, 2, 3, 7, 5, 6, 0, 8, 9>>
    /\ player0.resources = Some(<<AmmoRecord("sniper", 3, 84)>>)
    /\ status = "NameError"
    /\ player.resources = player0.resources

\* The call succeeds only when no record is rewritten or synthesized: the
\* SDU array ends before the first ammo slot.
C18_WitnessNoAmmoSlot ==
    /\ Modified
    /\ config.maxammo = Some(TRUE)
    /\ player0.resources = Some(<<AmmoRecord("sniper", 3, 84)>>)
    /\ player.resources = player0.resources


\* The SDU array the maxammo step reads: the unlock step comes before it.
AmmoSdus == IF "ammo" \in config.unlock THEN unlock_ammo(player0.sdus) ELSE player0.sdus

(***************************************************************************)
(* C21 as claimed: when maxammo meets a resource record whose resource path *)
(* is not a known ammo resource, or whose ammo type has no black-market     *)
(* entry, the call ends in an error and no save is produced: modify_save    *)
(* never returns after reporting such an error.                             *)
(***************************************************************************)
C21_Claimed ==
    ( /\ pc \in {"modified", "done"}
      /\ called > 0
      /\ ~IsNone(config.maxammo)
      /\ ~IsNone(player0.resources)
      /\ ammo_error_reported(AmmoSdus, Val(player0.resources)) ) =>
        status # "ok"

\* --maxammo on a resource list with the health pool, which is no ammo
\* resource, and an SDU array without ammo slots: the error is reported,
\* the run goes on and writes the save.
C21_Witness ==
    /\ pc = "done"
    /\ called = 1
    /\ status = "ok"
    /\ config.maxammo = Some(TRUE)
    /\ config.unlock = {}
    /\ player0.sdus = <<3, 1>>
    /\ Len(Val(player0.resources)) = 1
    /\ Val(player0.resources)[1].resource = "D_Resources.Health"
    /\ ammo_error_reported(player0.sdus, Val(player0.resources))
    /\ player.resources = player0.resources


(***************************************************************************)
(* Repeated calls: modify_save applied again to the record it returned,     *)
(* with the same Config object.                                             *)
(***************************************************************************)
RepeatConfigs ==
    { [DefaultConfig EXCEPT !.level = Some(72)],
      [DefaultConfig EXCEPT !.level = Some(80)],
      [DefaultConfig EXCEPT !.money = Some(5000), !.eridium = Some(99)],
      [DefaultConfig EXCEPT !.seraph = Some(7), !.torgue = Some(8)],
      [DefaultConfig EXCEPT !.itemlevels = Some(0)],
      [DefaultConfig EXCEPT !.itemlevels = Some(1)],
      [DefaultConfig EXCEPT !.itemlevels = Some(25), !.forceitemlevels = TRUE],
      [DefaultConfig EXCEPT !.oplevel = Some(10)],
      [DefaultConfig EXCEPT !.backpack = Some(IntArg(27))],
      [DefaultConfig EXCEPT !.bank = Some(IntArg(10))],
      [DefaultConfig EXCEPT !.backpack = Some(IntArg(27)), !.bank = Some(IntArg(10))],
      [DefaultConfig EXCEPT !.gunslots = Some(3)],
      [DefaultConfig EXCEPT !.maxammo = Some(TRUE)],
      [DefaultConfig EXCEPT !.copy_nvhm_missions = TRUE],
      [DefaultConfig EXCEPT !.name = Some("Maya"), !.save_game_id = Some(3)],
      [DefaultConfig EXCEPT !.fix_challenge_overflow = TRUE, !.challenges = {"max"}] }
    \cup { [DefaultConfig EXCEPT !.unlock = {u}] :
             u \in {"slaughterdome", "tvhm", "uvhm", "challenges", "ammo"} }
    \cup { [DefaultConfig EXCEPT !.challenges = o] :
             o \in {{"zero"}, {"max"}, {"bonus"}, {"max", "bonus"}} }

\* Records with and without an OP-level item, a challenge log, resource
\* records, flag bytes and challenge unlocks, and SDU arrays of 9, 8, 7 and 3
\* values.
RepeatPlayers ==
    { BasePlayer,
      [BasePlayer EXCEPT !.playthrough = 0, !.equipped = 3,
                         !.sdus = <<1, 2, 3, 4, 5, 6, 7, 0>>,
                         !.items = Some(<<LevelItem(0, 30), LevelItem(0, 1)>>),
                         !.weapons = Some(<<LevelItem(1, 12)>>)],
      [BasePlayer EXCEPT !.sdus = <<1, 2, 3, 4, 5, 6, 7>>,
                         !.resources = Some(<<AmmoRecord("sniper", 3, 84)>>),
                         !.dome_unlocked = Some(<<0>>),
                         !.dome_notifications = Some(<<1>>),
                         !.challenge_unlocks = Some(<<challenge_unlock(124)>>)],
      [BasePlayer EXCEPT !.sdus = <<1, 2, 3>>],
      [BasePlayer EXCEPT !.items = Some(<<
          LevelItem(0, 30),
          [ is_weapon |-> 0, values |-> SyntheticValues, key |-> 0,
            f2 |-> Some(neg_u64(4 + (3 * 256))), f3 |-> Some(0), f4 |-> Some(0) ] >>)],
      [BasePlayer EXCEPT !.xp = 0, !.challenges =
          SaveBlock("<", [unknown |-> Wide(4),
                          challenges |-> <<Entry(124, Wide(2100000000), Wide(0)),
                                           Entry(123, Wide(500), Wide(1000))>>])] }

InitRepeat == InitWith(RepeatConfigs, RepeatPlayers)

SpecRepeat == InitRepeat /\ [][Next]_vars

(***************************************************************************)
(* C19 as claimed: for every record and every Config of non-random options, *)
(* a second modify_save with the same Config returns the record the first   *)
(* one returned.                                                            *)
(***************************************************************************)
C19_Claimed ==
    [][(ModifySave /\ called = 1) => (status' = "ok" /\ player' = player)]_vars

\* --backpack 27 on an SDU array of three values: s[:7] + [5] + s[8:] adds
\* a value in each call.
C19_Witness ==
    /\ pc = "modified"
    /\ called = 2
    /\ status = "ok"
    /\ config.backpack = Some(27)
    /\ IsNone(config.bank)
    /\ player0.sdus = <<1, 2, 3>>
    /\ player.sdus = <<1, 2, 3, 5, 5>>


(***************************************************************************)
(* The structure round trip: a decoded record is mapped by a schema, mapped *)
(* back by the inverted schema and encoded.                                 *)
(***************************************************************************)
\* A nested message with its tags in ascending order (1: b"a", 3: the
\* 32 bits of 1.0, 4: 3) and one with tag 4 before tag 3.
NestedSorted == <<10, 1, 97, 29, 0, 0, 128, 63, 32, 3>>
NestedUnsorted == <<32, 3, 29, 0, 0, 128, 63>>

\* The entries a record may hold under each tag (<<>>: the tag is absent).
TagOptions ==
    << { <<>>, <<PbEntry(0, IntV(5))>>, <<PbEntry(2, BytesV(<<97, 98>>))>> },
       { <<>>, <<PbEntry(2, BytesV(<<1, 200, 1>>))>>, <<PbEntry(2, BytesV(<<128, 0>>))>> },
       { <<>>, <<PbEntry(5, IntV(1065353216))>> },
       { <<>>, <<PbEntry(2, BytesV(NestedSorted))>>,
               <<PbEntry(2, BytesV(NestedUnsorted)), PbEntry(2, BytesV(NestedSorted))>> },
       { <<>>, <<PbEntry(0, IntV(3))>>,
               <<PbEntry(2, BytesV(<<120, 121>>)), PbEntry(1, IntV(9))>> },
       { <<>>, <<PbEntry(5, IntV(7))>> } >>

RecordTags == <<1, 2, 3, 4, 6, 8>>

IsPresent(item) == item.val # <<>>

Records ==
    { SelectSeq([i \in 1..Len(RecordTags) |-> [key |-> RecordTags[i], val |-> f[i]]],
                IsPresent) :
        f \in { g \in [1..Len(RecordTags) -> UNION {TagOptions[i] : i \in 1..Len(RecordTags)}] :
                  \A i \in 1..Len(RecordTags) : g[i] \in TagOptions[i] } }

\* Schemas with leaf names, with typed tuples only, and with a nested schema
\* of typed tuples.  Tag 6 is in none of them.
Schemas ==
    { << SchemaItem(1, PlainM("class")),
         SchemaItem(2, TupleM("currency", TRUE, "int", 0, <<>>)),
         SchemaItem(3, TupleM("amount", FALSE, "float", 0, <<>>)),
         SchemaItem(4, TupleM("resources", TRUE, "dict", 0,
             << SchemaItem(1, PlainM("resource")),
                SchemaItem(3, TupleM("amount", FALSE, "float", 0, <<>>)),
                SchemaItem(4, PlainM("level")) >>)),
         SchemaItem(8, TupleM("size", FALSE, "none", 0, <<>>)) >>,
      << SchemaItem(2, TupleM("currency", TRUE, "int", 0, <<>>)),
         SchemaItem(3, TupleM("amount", FALSE, "float", 0, <<>>)),
         SchemaItem(8, TupleM("size", FALSE, "int", 5, <<>>)) >>,
      << SchemaItem(1, TupleM("class", FALSE, "int", 0, <<>>)),
         SchemaItem(3, TupleM("amount", FALSE, "float", 0, <<>>)),
         SchemaItem(4, TupleM("resources", TRUE, "dict", 0,
             << SchemaItem(1, TupleM("resource", FALSE, "bytes", 0, <<>>)),
                SchemaItem(3, TupleM("amount", FALSE, "float", 0, <<>>)),
                SchemaItem(4, TupleM("level", FALSE, "int", 0, <<>>)) >>)) >> }

InitStructure ==
    /\ config0 = DefaultConfig
    /\ config = config0
    /\ player0 = BasePlayer
    /\ player = player0
    /\ pc = "structure"
    /\ status = "ok"
    /\ called = 0
    /\ data = <<>>
    /\ \E r \in Records, s \in Schemas :
         result = [status |-> "record", pb |-> r, schema |-> s,
                   fields |-> NoOutput, out |-> NoOutput]

ApplyStructure ==
    /\ pc = "structure"
    /\ result.status = "record"
    /\ result' = [result EXCEPT !.status = "applied",
                                !.fields = apply_structure(result.pb, result.schema)]
    /\ UNCHANGED <<config0, config, player0, player, pc, status, called, data>>

RemoveStructure ==
    /\ pc = "structure"
    /\ result.status = "applied"
    /\ result.fields.status = "ok"
    /\ result' = [result EXCEPT !.status = "removed",
                                !.out = remove_structure(result.fields.v,
                                                         invert_structure(result.schema))]
    /\ UNCHANGED <<config0, config, player0, player, pc, status, called, data>>

WriteProtobuf ==
    /\ pc = "structure"
    /\ result.status = "removed"
    /\ result.out.status = "ok"
    /\ write_protobuf(result.out.v).status = "ok"
    /\ data' = write_protobuf(result.out.v).v
    /\ result' = [result EXCEPT !.status = "written"]
    /\ UNCHANGED <<config0, config, player0, player, pc, status, called>>

NextStructure == ApplyStructure \/ RemoveStructure \/ WriteProtobuf

SpecStructure == InitStructure /\ [][NextStructure]_vars

(***************************************************************************)
(* C20 as claimed: for every decoded record r and schema s,                 *)
(* remove_structure(apply_structure(r, s), invert_structure(s)) is a record *)
(* that encodes to the same bytes as r.                                     *)
(***************************************************************************)
C20_Claimed ==
    /\ result.status = "applied" => result.fields.status = "ok"
    /\ result.status = "removed" =>
          /\ result.out.status = "ok"
          /\ write_protobuf(result.out.v) = write_protobuf(result.pb)

\* The record {1: [[0, 5]]} under the schema with the leaf name "class":
\* apply_structure gives {'class': 5} and remove_structure raises NameError.
C20_Witness ==
    /\ result.status = "removed"
    /\ result.pb = <<[key |-> 1, val |-> <<PbEntry(0, IntV(5))>>]>>
    /\ KeyIndex(result.schema, 1) # 0
    /\ result.schema[KeyIndex(result.schema, 1)].val = PlainM("class")
    /\ result.fields = Ok(<<[key |-> "class", val |-> IntV(5)]>>)
    /\ result.out.status = "NameError"

(***************************************************************************)
(* App.run from the bytes of the input file to the output file.  The       *)
(* output mode and the state of the output file are kept in result:        *)
(* result.output is config.output, result.file is "untouched" until the    *)
(* file is opened for writing (which creates or truncates it), "opened"    *)
(* after that and "written" once the output has been written to it.        *)
(* config.json is False, config.import_items is None, config.output_filename *)
(* names a file that may be overwritten.                                   *)
(***************************************************************************)
RunOutputs == {"savegame", "decoded", "decodedjson", "json", "items"}

OutputConfigs ==
    { DefaultConfig,
      [DefaultConfig EXCEPT !.level = Some(72)],
      [DefaultConfig EXCEPT !.name = Some("Axton")],
      [DefaultConfig EXCEPT !.money = Some(100), !.bigendian = TRUE] }

RunFiles ==
    GoodFiles
    \cup { [f EXCEPT ![1] = (f[1] + 1) % 256] : f \in GoodFiles }
    \cup { [f EXCEPT ![25] = (f[25] + 1) % 256] : f \in GoodFiles }

InitRun ==
    /\ config0 \in OutputConfigs
    /\ config = config0
    /\ player0 = BasePlayer
    /\ player = player0
    /\ pc = "parsed"
    /\ status = "ok"
    /\ called = 0
    /\ data \in RunFiles
    /\ result \in [status : {"run"}, output : RunOutputs, file : {"untouched"}]

\* lines 676 and 1536-1539: modify_save starts by decoding the container,
\* and ends by encoding the payload again.
changed(c, d, p, u, r) ==
    IF u.status # "ok"
    THEN [status |-> u.status, p |-> p, unlock |-> c.unlock, data |-> d]
    ELSE [status |-> r.status,
          p |-> IF r.status = "ok" THEN r.p ELSE p,
          unlock |-> r.unlock,
          data |-> IF r.status = "ok" THEN wrap_player_data(c.endian, u.player)
                   ELSE d]

\* lines 1536-1539: if self.config.changes: save_data = self.modify_save(...).
RunChanges ==
    /\ pc = "finished"
    /\ result.status = "run"
    /\ IF config.changes
       THEN LET r == changed(config, data, player, unwrap_player_data(data),
                             modify_save(config, player)) IN
              /\ config' = [config EXCEPT !.unlock = r.unlock]
              /\ status' = r.status
              /\ player' = r.p
              /\ data' = r.data
              /\ called' = called + 1
       ELSE UNCHANGED <<config, status, player, data, called>>
    /\ pc' = "changed"
    /\ UNCHANGED <<config0, player0, result>>

\* lines 1549-1586: the output file is opened with mode 'w' or 'wb'.
RunOpen ==
    /\ pc = "changed"
    /\ status = "ok"
    /\ result' = [result EXCEPT !.file = "opened"]
    /\ pc' = "opened"
    /\ UNCHANGED <<config0, config, player0, player, status, called, data>>

\* lines 1094 and 1596-1604: what is run on save_data between the open and
\* the write, per output mode.
converted(output, u) ==
    IF output = "savegame" THEN "ok"
    ELSE IF u.status # "ok" THEN u.status
    ELSE IF output = "decoded" THEN "ok"
    ELSE read_protobuf(u.player).status

\* lines 1588-1607: the output is converted and written to the open file.
RunOutput ==
    /\ pc = "opened"
    /\ status' = converted(result.output, unwrap_player_data(data))
    /\ result' = [result EXCEPT !.file = IF status' = "ok" THEN "written"
                                         ELSE "opened"]
    /\ pc' = "done"
    /\ UNCHANGED <<config0, config, player0, player, called, data>>

NextRun == Finish \/ RunChanges \/ RunOpen \/ RunOutput

SpecRun == InitRun /\ [][NextRun]_vars

(***************************************************************************)
(* C22 as claimed: in every run that ends in a fatal error, for every      *)
(* output mode, the output file has been neither created, truncated nor    *)
(* written.                                                                *)
(***************************************************************************)
C22_Claimed ==
    (result.status = "run" /\ status # "ok") => result.file = "untouched"

\* Output mode decoded, no change requested, input with a wrong digest: the
\* file is open when unwrap_player_data rejects the input.
C22_Witness ==
    /\ pc = "done"
    /\ result.status = "run"
    /\ result.output = "decoded"
    /\ ~config.changes
    /\ called = 0
    /\ data \notin GoodFiles
    /\ status = "BorderlandsError"
    /\ result.file = "opened"

\* A failed mutation is met before the file is opened.
C22_WitnessBeforeOpen ==
    /\ pc = "changed"
    /\ config.changes
    /\ called = 1
    /\ status # "ok"
    /\ result.file = "untouched"

(***************************************************************************)
(* App.import_items on the three item containers of the record: bank       *)
(* (tag 41), items (tag 53) and weapons (tag 54), each a list of encoded   *)
(* entries or absent.  A line of the code list is kept split: a header     *)
(* line is ';' and a text, a code line is a prefix, '(', a base-64 text    *)
(* and possibly ')'; the base-64 text is kept as the bytes it stands for   *)
(* and whether its padding is correct.                                     *)
(***************************************************************************)
MaxLines == 3          \* lines of an imported code list

item_prefix == "BL2"

HeaderLine(text) ==
    [kind |-> "header", text |-> text, prefix |-> "", closed |-> FALSE,
     padded |-> FALSE, raw |-> <<>>]

CodeLine(prefix, closed, padded, raw) ==
    [kind |-> "code", text |-> "", prefix |-> prefix, closed |-> closed,
     padded |-> padded, raw |-> raw]

\* line 1149: line[1:].strip().lower(), on the header texts tried.
header_name(text) ==
    CASE text = " Bank" -> "bank"
      [] text = "ITEMS " -> "items"
      [] text = " Weapons" -> "weapons"
      [] OTHER -> "notes"

\* lines 1150-1153.
next_to_bank(to_bank, name) ==
    IF name = "bank" THEN TRUE
    ELSE IF name \in {"items", "weapons"} THEN FALSE
    ELSE to_bank

\* line 1155.
is_code(line) ==
    line.kind = "code" /\ line.prefix = item_prefix /\ line.closed

\* common.py lines 78-86.
rekeyed(header, item, key) ==
    Ok(header \o xor_data(rotate_data_left(item_checksum(header, item) \o item,
                                           key % 32),
                          key \div 32))

replace_raw_item_key(d, key) ==
    IF Len(d) < 5 THEN Err("struct.error")
    ELSE IF Len(d) = 5 THEN Err("ZeroDivisionError")
    ELSE rekeyed(<<d[1]>> \o pack_i32(key), Drop(ItemRaw(d), 2), key)

\* lines 1166-1177: the container an item goes to.
import_field_mutant(to_bank, raw) ==
    IF to_bank THEN 41 ELSE 53

import_field(to_bank, raw) ==
    IF to_bank THEN 41
    ELSE IF raw[1] < 128 THEN 53
    ELSE 54

\* lines 1169, 1173, 1177: the entry built around the item.
import_entry(field, raw) ==
    IF field = 41
    THEN << [key |-> 1, val |-> <<PbEntry(2, BytesV(raw))>>] >>
    ELSE IF field = 53
    THEN << [key |-> 1, val |-> <<PbEntry(2, BytesV(raw))>>],
            [key |-> 2, val |-> <<PbEntry(0, IntV(1))>>],
            [key |-> 3, val |-> <<PbEntry(0, IntV(0))>>],
            [key |-> 4, val |-> <<PbEntry(0, IntV(1))>>] >>
    ELSE << [key |-> 1, val |-> <<PbEntry(2, BytesV(raw))>>],
            [key |-> 2, val |-> <<PbEntry(0, IntV(0))>>],
            [key |-> 3, val |-> <<PbEntry(0, IntV(1))>>] >>

container_name(field) ==
    IF field = 41 THEN "bank_items" ELSE IF field = 53 THEN "items" ELSE "weapons"

\* line 1179: player.setdefault(field, []).append([2, write_protobuf(entry)]).
import_append(p, name, e) ==
    [p EXCEPT ![name] = IF IsNone(p[name]) THEN Some(<<e>>)
                        ELSE Some(Append(Val(p[name]), e))]

\* lines 1146-1179, from line i of the code list on; keys[i] is the random
\* key drawn for line i (line 1164).
RECURSIVE import_lines(_, _, _, _, _)
import_code(p, codelist, keys, i, to_bank, r) ==
    IF r.status # "ok" THEN [status |-> r.status, p |-> p]
    ELSE import_lines(
           import_append(p, container_name(import_field(to_bank, r.v)),
               PbEntry(2, BytesV(write_protobuf(
                   import_entry(import_field(to_bank, r.v), r.v)).v))),
           codelist, keys, i + 1, to_bank)

import_lines(p, codelist, keys, i, to_bank) ==
    IF i > Len(codelist) THEN [status |-> "ok", p |-> p]
    ELSE IF codelist[i].kind = "header"
    THEN import_lines(p, codelist, keys, i + 1,
                      next_to_bank(to_bank, header_name(codelist[i].text)))
    ELSE IF ~is_code(codelist[i]) \/ ~codelist[i].padded
    THEN import_lines(p, codelist, keys, i + 1, to_bank)
    ELSE import_code(p, codelist, keys, i, to_bank,
                     replace_raw_item_key(codelist[i].raw, keys[i]))

import_items(p, codelist, keys) == import_lines(p, codelist, keys, 1, FALSE)

\* The key drawn for the first line; line i gets this key plus i.
ImportKeys == {37, -5}

ImportItem == wrap_item(0, ItemValues(0, 7, "small"), 1234567)
ImportWeapon == wrap_item(1, ItemValues(1, 7, "small"), -1)

ImportLines ==
    { HeaderLine(" Bank"), HeaderLine("ITEMS "), HeaderLine(" Weapons"),
      HeaderLine(" Notes"),
      CodeLine("BL2", TRUE, TRUE, ImportItem),
      CodeLine("BL2", TRUE, TRUE, ImportWeapon),
      CodeLine("BL2", TRUE, FALSE, ImportItem),
      CodeLine("BL2", FALSE, TRUE, ImportWeapon),
      CodeLine("BL2", TRUE, TRUE, <<>>) }

ImportPlayers ==
    { [bank_items |-> None,
       items |-> Some(<<PbEntry(2, BytesV(<<10, 0>>))>>),
       weapons |-> Some(<<>>)] }

InitImport ==
    /\ config0 = DefaultConfig
    /\ config = config0
    /\ player0 = BasePlayer
    /\ player = player0
    /\ pc = "import"
    /\ status = "ok"
    /\ called = 0
    /\ data = <<>>
    /\ \E p \in ImportPlayers, codelist \in SeqsUpTo(ImportLines, MaxLines) :
         result = [status |-> "input", before |-> p, after |-> p,
                   codelist |-> codelist]

ImportItems ==
    /\ pc = "import"
    /\ result.status = "input"
    /\ \E first \in ImportKeys :
         LET r == import_items(result.before, result.codelist,
                               [i \in 1..Len(result.codelist) |-> first + i]) IN
           result' = [result EXCEPT !.status = r.status, !.after = r.p]
    /\ called' = called + 1
    /\ UNCHANGED <<config0, config, player0, player, pc, status, data>>

NextImport == ImportItems

SpecImport == InitImport /\ [][NextImport]_vars

\* The recognised name of the most recent header above line i, "" when
\* there is none.
RECURSIVE Section(_, _)
Section(codelist, i) ==
    IF i = 1 THEN ""
    ELSE IF /\ codelist[i - 1].kind = "header"
            /\ header_name(codelist[i - 1].text) \in {"bank", "items", "weapons"}
    THEN header_name(codelist[i - 1].text)
    ELSE Section(codelist, i - 1)

\* A line PREFIX(<base64>) whose text decodes.
ValidCode(line) == is_code(line) /\ line.padded

ValidLines == {i \in 1..Len(result.codelist) : ValidCode(result.codelist[i])}

ContainerLen(p, name) == IF IsNone(p[name]) THEN 0 ELSE Len(Val(p[name]))

Appended(field) ==
    ContainerLen(result.after, container_name(field))
        - ContainerLen(result.before, container_name(field))

KeepsEntries(field) ==
    IsNone(result.before[container_name(field)])
        \/ ( /\ ~IsNone(result.after[container_name(field)])
             /\ Take(Val(result.after[container_name(field)]),
                     ContainerLen(result.before, container_name(field)))
                  = Val(result.before[container_name(field)]) )

HeaderField(name) ==
    IF name = "bank" THEN 41 ELSE IF name = "items" THEN 53 ELSE 54

TypeField(name, raw) ==
    IF name = "bank" THEN 41 ELSE IF raw[1] < 128 THEN 53 ELSE 54

(***************************************************************************)
(* C23 as claimed: every valid code goes to the container named by the     *)
(* most recent header ('; Bank' 41, '; Items' 53, '; Weapons' 54), other   *)
(* lines append nothing, and as many entries are appended as there are     *)
(* valid code lines.                                                       *)
(***************************************************************************)
C23_Claimed ==
    ( /\ pc = "import"
      /\ result.status = "ok"
      /\ \A i \in ValidLines : Section(result.codelist, i) # "" ) =>
        \A field \in {41, 53, 54} :
            Appended(field) =
                Cardinality({i \in ValidLines :
                    HeaderField(Section(result.codelist, i)) = field})

(***************************************************************************)
(* C23 amended: a valid code under '; Bank' goes to the bank (41); any     *)
(* other valid code goes to items (53) or weapons (54) by the type bit of  *)
(* its first byte, whichever of '; Items' and '; Weapons' is above it;     *)
(* other lines append nothing, the entries already there stay, and as many *)
(* entries are appended as there are valid code lines.                     *)
(***************************************************************************)
C23_Amended ==
    (pc = "import" /\ result.status = "ok") =>
        \A field \in {41, 53, 54} :
            /\ KeepsEntries(field)
            /\ Appended(field) =
                 Cardinality({i \in ValidLines :
                     TypeField(Section(result.codelist, i),
                               result.codelist[i].raw) = field})

\* A weapon code under '; Items' is appended to the weapons.
C23_Witness ==
    /\ pc = "import"
    /\ result.status = "ok"
    /\ result.codelist = <<HeaderLine("ITEMS "), CodeLine("BL2", TRUE, TRUE, ImportWeapon)>>
    /\ Appended(54) = 1
    /\ Appended(53) = 0

(***************************************************************************)
(* The level step as a frame: when xp is rewritten and when it is kept.    *)
(***************************************************************************)
LevelRequested ==
    /\ Modified
    /\ ~IsNone(config.level)
    /\ Val(config.level) \in 1..Len(required_xp)

XpRewritten == player.xp # player0.xp

OutsideLevel(L, xp) == xp < ReqXp(L - 1) \/ xp >= ReqXp(L)

(***************************************************************************)
(* C24 as claimed: with level = L, xp is rewritten (to required_xp[L-1])   *)
(* iff it is outside [required_xp[L-1], required_xp[L]) when L < 80, and   *)
(* iff it is below required_xp[79] when L = 80, so that an xp above        *)
(* required_xp[79] is left as it is.                                       *)
(***************************************************************************)
C24_Claimed ==
    LevelRequested =>
        /\ Val(config.level) < 80 =>
             (XpRewritten <=> OutsideLevel(Val(config.level), player0.xp))
        /\ Val(config.level) = 80 => (XpRewritten <=> player0.xp < ReqXp(79))
        /\ XpRewritten => player.xp = ReqXp(Val(config.level) - 1)

(***************************************************************************)
(* C24 amended: with level = L, xp is rewritten (to required_xp[L-1]) iff  *)
(* it is outside [required_xp[L-1], required_xp[L]) when L < 80, and iff   *)
(* it differs from required_xp[79] when L = 80: at the cap an xp above     *)
(* required_xp[79] is brought down to it.                                  *)
(***************************************************************************)
C24_Amended ==
    LevelRequested =>
        /\ Val(config.level) < 80 =>
             (XpRewritten <=> OutsideLevel(Val(config.level), player0.xp))
        /\ Val(config.level) = 80 => (XpRewritten <=> player0.xp # ReqXp(79))
        /\ XpRewritten => player.xp = ReqXp(Val(config.level) - 1)

\* Level 80 on an xp above the cap: the xp is lowered to required_xp[79].
C24_Witness ==
    /\ LevelRequested
    /\ config.level = Some(80)
    /\ player0.xp = ReqXp(79) + 5
    /\ player.xp = ReqXp(79)

\* Level 50 on an xp inside the level's range: the xp is kept.
C24_WitnessKept ==
    /\ LevelRequested
    /\ config.level = Some(50)
    /\ player0.xp = ReqXp(50) - 1
    /\ player.xp = player0.xp

(***************************************************************************)
(* The challenge unlocks (tag 38): records whose list holds entries of the *)
(* catalog, entries of other names, or both, and the option 'challenges'   *)
(* of --unlock alone or next to another one.                               *)
(***************************************************************************)
MaxUnlocks == 2        \* entries of the challenge-unlock list (tag 38)

UnlockEntries ==
    { challenge_unlock(123), challenge_unlock(124),
      [dlc_id |-> 0, is_from_dlc |-> 0, name |-> "GD_Challenges.Misc.Other"] }

UnlockConfigs ==
    { [DefaultConfig EXCEPT !.unlock = {"challenges"} \cup more] :
        more \in {{}, {"uvhm"}, {"slaughterdome"}} }

UnlockPlayers ==
    { [BasePlayer EXCEPT !.challenge_unlocks = Some(l)] :
        l \in SeqsUpTo(UnlockEntries, MaxUnlocks) }

InitUnlock == InitWith(UnlockConfigs, UnlockPlayers)

SpecUnlock == InitUnlock /\ [][Next]_vars

UnlocksNamed(l, name) == {i \in 1..Len(l) : l[i].name = name}

(***************************************************************************)
(* C25 as claimed: after modify_save with unlock 'challenges', every       *)
(* catalog challenge's id-text is the name of some tag-38 entry; entries   *)
(* are appended only for id-texts that were absent, so no id-text gains a  *)
(* duplicate, and the entries that were there keep content and order.      *)
(***************************************************************************)
C25_Claimed ==
    ( /\ pc \in {"modified", "done"}
      /\ called > 0
      /\ "challenges" \in config.unlock
      /\ ~IsNone(player0.challenge_unlocks) ) =>
        /\ status = "ok"
        /\ LET before == Val(player0.challenge_unlocks)
               after == Val(player.challenge_unlocks)
           IN /\ Take(after, Len(before)) = before
              /\ \A id \in DOMAIN challenges :
                    Cardinality(UnlocksNamed(after, challenge_unlock(id).name)) =
                        Max(1, Cardinality(UnlocksNamed(before, challenge_unlock(id).name)))
              /\ \A i \in (Len(before) + 1)..Len(after) :
                    \E id \in DOMAIN challenges : after[i] = challenge_unlock(id)

\* One catalog challenge is missing from the list: the call ends in
\* NameError and the list is as it was.
C25_Witness ==
    /\ pc = "modified"
    /\ called = 1
    /\ config.unlock = {"challenges"}
    /\ player0.challenge_unlocks = Some(<<challenge_unlock(123)>>)
    /\ status = "NameError"
    /\ player.challenge_unlocks = player0.challenge_unlocks

\* The call succeeds only when nothing is to be appended.
C25_WitnessAllPresent ==
    /\ Modified
    /\ config.unlock = {"challenges"}
    /\ player0.challenge_unlocks = Some(<<challenge_unlock(124), challenge_unlock(123)>>)
    /\ player.challenge_unlocks = player0.challenge_unlocks

(***************************************************************************)
(* The message codec on its own: write_protobuf applied to a record, and   *)
(* read_protobuf applied to the bytes written or to bytes found in a file. *)
(* Integer values stay below 2^31.                                         *)
(***************************************************************************)
MaxEntries == 2        \* entries under one tag of a record handed to the codec

CodecEntries ==
    { PbEntry(0, IntV(0)), PbEntry(0, IntV(300)), PbEntry(1, IntV(70000)),
      PbEntry(2, BytesV(<<8, 1>>)), PbEntry(5, IntV(65541)),
      PbEntry(3, IntV(1)), PbEntry(7, BytesV(<<1>>)) }

CodecRecords ==
    { <<[key |-> 1, val |-> l]>> : l \in SeqsUpTo(CodecEntries, MaxEntries) }
    \cup { <<[key |-> k[1], val |-> l], [key |-> k[2], val |-> m]>> :
             k \in {<<1, 2>>, <<16, 1>>},
             l \in SeqsUpTo(CodecEntries, MaxEntries),
             m \in SeqsUpTo(CodecEntries, 1) }

\* Byte strings whose first key carries a wire type the codec does not
\* support, or a supported one.
CodecBytes ==
    { <<(t * 8) + w, 1, 0, 0, 0, 0, 0, 0, 0>> : t \in {1, 2}, w \in 0..7 }

NoOutcome == [status |-> "none", v |-> <<>>]

InitCodec ==
    /\ config0 = DefaultConfig
    /\ config = config0
    /\ player0 = BasePlayer
    /\ player = player0
    /\ pc = "codec"
    /\ status = "ok"
    /\ called = 0
    /\ \/ /\ data = <<>>
          /\ \E r \in CodecRecords :
               result = [status |-> "record", r |-> r, out |-> NoOutcome,
                         back |-> NoOutcome]
       \/ /\ data \in CodecBytes
          /\ result = [status |-> "bytes", r |-> <<>>, out |-> NoOutcome,
                       back |-> NoOutcome]

\* write_protobuf(r).
CodecWrite ==
    /\ pc = "codec"
    /\ result.status = "record"
    /\ result' = [result EXCEPT !.status = "written",
                                !.out = write_protobuf(result.r)]
    /\ data' = result'.out.v
    /\ UNCHANGED <<config0, config, player0, player, pc, status, called>>

\* read_protobuf on the bytes.
CodecRead ==
    /\ pc = "codec"
    /\ \/ result.status = "bytes"
       \/ result.status = "written" /\ result.out.status = "ok"
    /\ result' = [result EXCEPT
                    !.status = IF result.status = "bytes" THEN "parsed" ELSE "read",
                    !.back = read_protobuf(data)]
    /\ UNCHANGED <<config0, config, player0, player, pc, status, called, data>>

NextCodec == CodecWrite \/ CodecRead

SpecCodec == InitCodec /\ [][NextCodec]_vars

SupportedWire(r) ==
    \A i \in 1..Len(r) : \A j \in 1..Len(r[i].val) :
        r[i].val[j].wire_type \in {0, 1, 2, 5}

NoEmptyList(r) == \A i \in 1..Len(r) : r[i].val # <<>>

\* The key written first: (tag << 3) | wire_type of the first entry of the
\* smallest tag.
FirstKey(r) ==
    write_varint((sorted_items(r)[1].key * 8) + sorted_items(r)[1].val[1].wire_type)

OtherWireRaises ==
    /\ ( /\ pc = "codec"
         /\ result.status \in {"written", "read"}
         /\ ~SupportedWire(result.r) ) => result.out.status = "BorderlandsError"
    /\ ( /\ pc = "codec"
         /\ result.status = "parsed"
         /\ (data[1] % 8) \notin {0, 1, 2, 5} ) => result.back.status = "BorderlandsError"

(***************************************************************************)
(* C26 as claimed: for every record r mapping tags to lists of (wire_type, *)
(* value) with wire types in {0, 1, 2, 5}, read_protobuf(write_protobuf(r)) *)
(* equals r, tags being written in ascending order with the order under a  *)
(* tag kept and the key (tag << 3) | wire_type; any other wire type raises *)
(* an error in both directions.                                            *)
(***************************************************************************)
C26_Claimed ==
    /\ OtherWireRaises
    /\ ( /\ pc = "codec"
         /\ result.status = "read"
         /\ SupportedWire(result.r) ) =>
           /\ result.back.status = "ok"
           /\ result.back.v = sorted_items(result.r)

(***************************************************************************)
(* C26 amended: the same for every record none of whose lists is empty; a  *)
(* tag whose list is empty is not written, so it is missing from the       *)
(* record read back.                                                       *)
(***************************************************************************)
C26_Amended ==
    /\ OtherWireRaises
    /\ ( /\ pc = "codec"
         /\ result.status = "read"
         /\ SupportedWire(result.r) ) =>
           /\ result.back.status = "ok"
           /\ NoEmptyList(result.r) =>
                /\ result.back.v = sorted_items(result.r)
                /\ Take(data, Len(FirstKey(result.r))) = FirstKey(result.r)
           /\ \A i \in 1..Len(result.r) :
                 result.r[i].val = <<>> => KeyIndex(result.back.v, result.r[i].key) = 0

\* Two tags given in descending order, three entries: the record read back
\* has the tags ascending and the entries as they were.
C26_Witness ==
    /\ pc = "codec"
    /\ result.status = "read"
    /\ result.r = << [key |-> 16, val |-> <<PbEntry(2, BytesV(<<8, 1>>)), PbEntry(0, IntV(300))>>],
                     [key |-> 1, val |-> <<PbEntry(5, IntV(65541))>>] >>
    /\ result.back = Ok(<< result.r[2], result.r[1] >>)
    /\ Take(data, 5) = <<13, 5, 0, 1, 0>>

\* A tag with an empty list: nothing is written for it.
C26_WitnessEmptyList ==
    /\ pc = "codec"
    /\ result.status = "read"
    /\ result.r = << [key |-> 1, val |-> <<>>] >>
    /\ data = <<>>
    /\ result.back = Ok(<<>>)

(***************************************************************************)
(* level and itemlevels = 0 requested together.                            *)
(***************************************************************************)
LevelItemConfigs ==
    { [DefaultConfig EXCEPT !.level = Some(L), !.itemlevels = Some(0),
                            !.forceitemlevels = f] :
        L \in {0, 1, 72, 80, 81}, f \in BOOLEAN }

LevelItemPlayers ==
    { [BasePlayer EXCEPT !.items = Some(i), !.weapons = Some(w)] :
        i \in SeqsUpTo({LevelItem(0, 30), LevelItem(0, 1)}, MaxItems),
        w \in {<<>>, <<LevelItem(1, 12)>>} }

InitLevelItems == InitWith(LevelItemConfigs, LevelItemPlayers)

SpecLevelItems == InitLevelItems /\ [][Next]_vars

BothRequested ==
    /\ Modified
    /\ ~IsNone(config.level)
    /\ Val(config.level) \in 1..Len(required_xp)
    /\ config.itemlevels = Some(0)

RewrittenAt(before, after, L) ==
    /\ Len(after) = Len(before)
    /\ \A i \in 1..Len(before) :
          IF config.forceitemlevels \/ before[i].values[5] > 1
          THEN after[i].values[5] = L /\ after[i].values[6] = L
          ELSE after[i] = before[i]

(***************************************************************************)
(* C27: when level = L and itemlevels = 0 are requested together, every    *)
(* item the itemlevels step rewrites gets level L, the level set by the    *)
(* same call, because the level step precedes the itemlevels step.         *)
(***************************************************************************)
C27_NewLevel ==
    BothRequested =>
        /\ player.level = Val(config.level)
        /\ RewrittenAt(Val(player0.items), Val(player.items), Val(config.level))
        /\ RewrittenAt(Val(player0.weapons), Val(player.weapons), Val(config.level))

\* A level-50 character with a level-12 weapon, level 72 requested: the
\* weapon is at level 72.
C27_Witness ==
    /\ BothRequested
    /\ called = 1
    /\ config.level = Some(72)
    /\ player0.level = 50
    /\ player0.weapons = Some(<<LevelItem(1, 12)>>)
    /\ Val(player.weapons)[1].values[5] = 72
    /\ Val(player.weapons)[1].values[6] = 72

(***************************************************************************)
(* The SDU array read by name.                                             *)
(***************************************************************************)
\* unwrap_black_market, lines 415-417: dict(zip(black_market_keys, sdus)).
unwrap_black_market(sdus) ==
    [ k \in {black_market_keys[i] : i \in 1..Min(Len(sdus), Len(black_market_keys))} |->
        sdus[CHOOSE i \in 1..Len(black_market_keys) : black_market_keys[i] = k] ]

(***************************************************************************)
(* C28 as claimed: the SDU slot the backpack option writes is the one      *)
(* black_market_keys names 'backpack', and the slot the bank option writes *)
(* is the one named 'bank': after backpack = S or bank = S, the decoded    *)
(* SDU array shows the new count under that name and every ammo SDU level  *)
(* as it was.                                                              *)
(***************************************************************************)
C28_Claimed ==
    Modified =>
        LET before == unwrap_black_market(player0.sdus)
            after == unwrap_black_market(player.sdus)
        IN /\ ~IsNone(config0.backpack) =>
                /\ "backpack" \in DOMAIN after
                /\ after["backpack"] = (player.backpack_size - 12) \div 3
           /\ ~IsNone(config0.bank) =>
                /\ "bank" \in DOMAIN after
                /\ after["bank"] = (Val(player.bank) - 6) \div 2
           /\ \A k \in black_market_ammo_keys \cap DOMAIN before :
                k \in DOMAIN after /\ after[k] = before[k]

\* --backpack 27 on a full SDU array: the count 5 is stored under 'smg' and
\* 'backpack' keeps its 1.
C28_Witness ==
    /\ Modified
    /\ called = 1
    /\ config0.backpack = Some(IntArg(27))
    /\ IsNone(config0.bank)
    /\ player0.sdus = <<1, 2, 3, 4, 5, 6, 7, 3, 2>>
    /\ player.backpack_size = 27
    /\ unwrap_black_market(player.sdus)["smg"] = 5
    /\ unwrap_black_market(player.sdus)["backpack"] = 1

\* --bank 20 on the same array: the count 7 is stored under 'sniper' and
\* 'bank' keeps its 2.
C28_WitnessBank ==
    /\ Modified
    /\ called = 1
    /\ config0.bank = Some(IntArg(20))
    /\ IsNone(config0.backpack)
    /\ player0.sdus = <<1, 2, 3, 4, 5, 6, 7, 3, 2>>
    /\ player.bank = Some(20)
    /\ unwrap_black_market(player.sdus)["sniper"] = 7
    /\ unwrap_black_market(player.sdus)["bank"] = 2

(***************************************************************************)
(* itemlevels on records that hold synthetic items, with and without       *)
(* forceitemlevels and oplevel.                                            *)
(***************************************************************************)
OrdinaryItem == LevelItem(0, 30)

\* The OP-level item, holding OP level 3, and another synthetic item (id 1).
OpItem ==
    [ is_weapon |-> 0, values |-> SyntheticValues, key |-> 0,
      f2 |-> Some(neg_u64(4 + (3 * 256))), f3 |-> Some(0), f4 |-> Some(0) ]

OtherSynthetic ==
    [ is_weapon |-> 0, values |-> SyntheticValues, key |-> 0,
      f2 |-> Some(neg_u64(1 + (500 * 256))), f3 |-> Some(0), f4 |-> Some(0) ]

SyntheticConfigs ==
    { [DefaultConfig EXCEPT !.itemlevels = Some(n), !.forceitemlevels = f,
                            !.oplevel = o] :
        n \in {0, 25}, f \in BOOLEAN, o \in {None, Some(5)} }

SyntheticPlayers ==
    { [BasePlayer EXCEPT !.items = Some(i)] :
        i \in SeqsUpTo({OrdinaryItem, OpItem, OtherSynthetic}, MaxItems) }

InitSynthetic == InitWith(SyntheticConfigs, SyntheticPlayers)

SpecSynthetic == InitSynthetic /\ [][Next]_vars

(***************************************************************************)
(* C29 as claimed: itemlevels never alters a synthetic item (set == 255,   *)
(* every other field zero), with or without forceitemlevels, so that a     *)
(* later oplevel step still recognizes the existing OP-level item and      *)
(* appends none.                                                           *)
(***************************************************************************)
C29_Claimed ==
    (Modified /\ ~IsNone(config.itemlevels)) =>
        LET before == Val(player0.items)
            after == Val(player.items)
        IN /\ \A i \in 1..Len(before) :
                 is_synthetic(before[i].values) =>
                     /\ after[i].values = before[i].values
                     /\ after[i].key = before[i].key
           /\ (\E i \in 1..Len(before) : is_op_entry(before[i])) =>
                 Len(after) = Len(before)

\* forceitemlevels with itemlevels 25 and oplevel 5 on a record whose only
\* item is the OP-level item: the item gets level 25, the oplevel step does
\* not recognize it and appends a second OP-level item.
C29_Witness ==
    /\ Modified
    /\ called = 1
    /\ config.forceitemlevels
    /\ config.itemlevels = Some(25)
    /\ config.oplevel = Some(5)
    /\ player0.items = Some(<<OpItem>>)
    /\ Len(Val(player.items)) = 2
    /\ Val(player.items)[1].values[5] = 25
    /\ Val(player.items)[1].f2 = OpItem.f2
    /\ is_op_entry(Val(player.items)[2])

\* Without forceitemlevels the synthetic items are as they were.
C29_WitnessUnforced ==
    /\ Modified
    /\ called = 1
    /\ ~config.forceitemlevels
    /\ config.itemlevels = Some(25)
    /\ IsNone(config.oplevel)
    /\ player0.items = Some(<<OpItem, OrdinaryItem>>)
    /\ Val(player.items)[1] = OpItem
    /\ Val(player.items)[2].values[5] = 25

(***************************************************************************)
(* The container round trip: wrap_player_data on a payload, then           *)
(* unwrap_player_data on the bytes it returned.                            *)
(***************************************************************************)
\* The header of a file, 19 bytes, after decompression.
FileHeader(d) == Take(lzo1x_decompress(<<240>> \o Drop(d, 20)).data, 19)

\* What wrap_player_data has stored for the payload it was given.
StoredAsWritten ==
    (pc = "finished" /\ result.status = "wrapped") =>
        /\ VersionOrder(data) = config.endian
        /\ FileVersion(data) \in {<<0, 2>>, <<512, 0>>}
        /\ unpack_u32(config.endian, SubSeq(FileHeader(data), 12, 15))
             = crc32(result.player)
        /\ unpack_u32(config.endian, SubSeq(FileHeader(data), 16, 19))
             = Wide(Len(result.player))

\* unwrap_player_data applied to what wrap_player_data returned.
UnwrapsToPayload ==
    ( /\ result.status = "wrapped"
      /\ result'.status # "wrapped"
      /\ called' = called + 1
      /\ data' = data ) =>
        /\ result'.status = "ok"
        /\ result'.player = result.player

(***************************************************************************)
(* C30: for both byte orders and every payload p,                          *)
(* unwrap_player_data(wrap_player_data(p)) = p, the block compressor and   *)
(* the prefix-code codec being inverses: the version bytes written make    *)
(* unwrap_player_data pick the byte order that was used to write crc32 and *)
(* uncompressed_size, the stored uncompressed_size is len(p) and the       *)
(* stored crc32 is the CRC-32 of p.                                        *)
(***************************************************************************)
C30_RoundTrip == []StoredAsWritten /\ [][UnwrapsToPayload]_vars

\* A two-byte payload wrapped big-endian and unwrapped again.
C30_Witness ==
    /\ pc = "finished"
    /\ called = 2
    /\ config.endian = ">"
    /\ data = wrap_player_data(">", <<65, 255>>)
    /\ FileVersion(data) = <<0, 2>>
    /\ result.status = "ok"
    /\ result.player = <<65, 255>>
    /\ result.stages = <<"sha1", "lzo1x_decompress", "huffman_decompress", "crc32">>

\* The same little-endian, at the moment the payload has been wrapped.
C30_WitnessLittle ==
    /\ pc = "finished"
    /\ called = 1
    /\ config.endian = "<"
    /\ result.status = "wrapped"
    /\ result.player = <<65, 255>>
    /\ FileVersion(data) = <<512, 0>>
    /\ unwrap_player_data(data).player = <<65, 255>>

====
